---------------------------- MODULE Spec2Model ----------------------------
(***************************************************************************)
(* A model of native_executor: the task handles built by the spawn         *)
(* functions of src/src/lib.rs on top of async_task, driven by the          *)
(* resumption callbacks handed to the platform executor (the GCD backend   *)
(* of src/src/apple.rs), and the Mailbox actor of src/src/mailbox.rs.       *)
(*                                                                         *)
(* Two specifications share the module:                                    *)
(*   Spec / FairSpec  the task lifecycle (spawn, run, wake, await, cancel, *)
(*                    detach) over the main queue and the global queues;   *)
(*   MailboxSpec      the mailbox: producers calling handle and call, the  *)
(*                    channel, and the background loop applying jobs.      *)
(* Each specification leaves the other's variables at their initial value. *)
(***************************************************************************)
EXTENDS Integers, Sequences, FiniteSets, TLC

\* ------------------------------------------------------------------ bounds

\* Number of task slots that may be spawned.
NumTasks == 1
\* Largest number of times a computation returns Pending before it is Ready.
MaxSuspend == 2

Tasks == 1..NumTasks
\* Outputs a computation may return (42 is the spec's scenario value).
Values == {41, 42}
None == "none"

\* ---------------------------------------------------------------- Priority

\* The closed enumeration of scheduling classes, as matched in apple.rs.
Priority == {"UserInteractive", "UserInitiated", "Default", "Utility", "Background"}

\* #[default] Default: Priority::default().
PriorityDefault == "Default"

\* impl From<Priority> for QueuePriority: the native GCD level of a priority.
QueuePriorityOf(p) ==
    CASE p = "Background" -> "Background"
      [] p = "Utility" -> "Low"
      [] p \in {"UserInitiated", "UserInteractive"} -> "High"
      [] OTHER -> "Default"

QueuePriority == {"High", "Default", "Low", "Background"}

\* The five ways of creating a task.
Kinds == {"spawn", "spawn_with_priority", "spawn_main", "spawn_local", "on_main"}
MainKinds == {"spawn_main", "spawn_local", "on_main"}

VARIABLES
    kind,       \* [Tasks -> Kinds \cup {None}]: the function that created the task
    prio,       \* [Tasks -> Priority \cup {None}]: the priority passed by the caller
    sched,      \* the schedule closure of the task: what it calls, with which priority
    fut,        \* the computation: how often it suspended, whether it is not yet dropped
    st,         \* async_task's state word: scheduled, running, completed, closed, task, awaiter
    output,     \* the output the computation returned: <<>> before, <<v>> once written
    handle,     \* what the owner did with the handle
    delivered,  \* the values polls of the handle returned Ready with
    cancelRet,  \* what Task::cancel returned: <<>> for None, <<v>> for Some(v)
    drops,      \* how many times the output was dropped
    cancelEffect, \* cancel() closed a task that had not completed
    panicked,   \* which operation panicked on the handle
    produced,   \* the computation returned Ready
    mainQ,      \* the main dispatch queue: jobs in submission order
    globalQ,    \* the global concurrent queues, one per native priority
    runs,       \* resumptions in progress per task and context
    subLog,     \* every submission of a resumption of the task, in order
    ranOn,      \* the contexts resumptions of the task started on
    wakerOut    \* the computation has been handed a waker

taskVars == <<kind, prio, sched, fut, st, output, handle, delivered, cancelRet,
              drops, cancelEffect, panicked, produced, mainQ, globalQ, runs,
              subLog, ranOn, wakerOut>>

VARIABLES
    mbJobs,      \* every job handed to handle/call, in the order it entered the channel
    mbQueue,     \* the channel: indices into mbJobs, head first
    mbValue,     \* the value owned by the background task
    mbActive,    \* jobs received by the loop and not yet finished
    mbApplied,   \* jobs whose application finished, in order
    mbSt,        \* the state word of the background task
    mbSubmitted, \* resumptions of the background task waiting on the main queue
    mbRuns,      \* resumptions of the background task in progress
    mbListening, \* receiver.recv() found the channel empty and waits
    mbWait,      \* per producer: the call it is suspended in (<<>> or <<job>>)
    mbResp,      \* per producer: the response channel of its call (bounded(1))
    mbResults,   \* what each finished call returned, in order
    mbSender,    \* the Mailbox (the channel's only Sender) exists
    mbReceiver,  \* the background task's future (Receiver and value) exists
    mbDropped,   \* jobs dropped without being run
    mbRespClosed,   \* per producer: the sender s of its response channel is gone
    mbCallPanicked, \* per producer: its call panicked "Mailbox call failed"
    mbAtDrop     \* <<number of jobs applied when the Mailbox was dropped>>, else <<>>

mbVars == <<mbJobs, mbQueue, mbValue, mbActive, mbApplied, mbSt, mbSubmitted,
            mbRuns, mbListening, mbWait, mbResp, mbResults, mbSender, mbReceiver,
            mbDropped, mbRespClosed, mbCallPanicked, mbAtDrop>>

VARIABLES
    now,         \* the clock, in units of 1/UnitsPerSec second
    tmCtor,      \* how the Timer was created: <<>> or <<[via, arg]>>
    tmDuration,  \* Timer.duration: Option<Duration>, <<>> or <<d>>
    tmFinished,  \* Timer.finished: the shared AtomicBool
    tmPos,       \* "idle", or "polling": a poll is between its load and its return
    tmPollLog,   \* the polls so far: [res, at]
    tmRegLog,    \* calls of exec_after made by poll
    tmDelayed,   \* delayed callbacks held by the backend
    tmWoken,     \* wakers woken by the callback, in order
    tmPollWakers \* the waker each poll so far came with, in order

tmVars == <<now, tmCtor, tmDuration, tmFinished, tmPos, tmPollLog, tmRegLog,
            tmDelayed, tmWoken, tmPollWakers>>

VARIABLES
    lvCreated,   \* LocalValue.created: the creating thread (0: no LocalValue yet)
    lvValue,     \* LocalValue.value: <<v>>, or <<>> once moved out
    lvState,     \* "none", "live", "consumed", "dropped", "leaked"
    ovCreated,   \* the thread that created the OnceValue (0: none yet)
    ovCell,      \* the Option inside the RefCell: <<v>> or <<>>
    ovState,     \* "none", "live", "consumed", "dropped", "leaked"
    ovReaders,   \* live Ref borrows of the RefCell
    ovWriter,    \* a RefMut borrow of the RefCell is alive
    ovTaken,     \* values handed out by take / into_inner, in order
    vLast,       \* the last operation: [op, thread, res, val, flag]
    vOps,        \* operations so far
    aborted      \* the process aborted (panic while panicking)

vlVars == <<lvCreated, lvValue, lvState, ovCreated, ovCell, ovState, ovReaders,
            ovWriter, ovTaken, vLast, vOps, aborted>>

VARIABLES
    beBackend,   \* the backend in use ("none" before the program starts)
    beJobs,      \* every job handed to exec_main / exec / exec_after, in order
    beQ,         \* per serial context: the jobs waiting in its FIFO, head first
    bePool,      \* jobs waiting in a concurrent pool
    beSleep,     \* delayed jobs whose delay is running
    beRun,       \* invocations in progress: [job, on]
    beStarts,    \* every invocation started, in order: [job, on, at]
    beLost,      \* jobs that will never be invoked (dropped or leaked)
    beAlive,     \* per serial context: its draining worker is alive
    beMainStarted, \* polyfill: start_main_executor has installed MAIN_EXECUTOR
    beFault,     \* jobs whose submitting call or native callback did not return normally
    beNow,       \* the clock
    beStartLog,  \* polyfill: the calls of start_main_executor so far, "runs" or "panic"
    bePanicked   \* jobs whose invocation panicked

beVars == <<beBackend, beJobs, beQ, bePool, beSleep, beRun, beStarts, beLost,
            beAlive, beMainStarted, beFault, beNow, beStartLog, bePanicked>>

VARIABLES
    slSt,        \* the task spawned on Timer::after(d).await: its async_task state
    slJobs       \* its resumptions handed to the backend and not yet run

slVars == <<slSt, slJobs>>

VARIABLES
    wbDelay,     \* web exec_after: the Duration of the call, <<>> or <<[secs, nanos]>>
    wbTimeout    \* the u32 handed to setTimeout, <<>> or <<[high, low]>> (16-bit halves)

wbVars == <<wbDelay, wbTimeout>>

vars == <<taskVars, mbVars, tmVars, vlVars, beVars, slVars, wbVars>>

\* What the operations of one component leave alone.
nonTaskVars == <<mbVars, tmVars, vlVars, beVars, slVars, wbVars>>
nonMbVars == <<taskVars, tmVars, vlVars, beVars, slVars, wbVars>>
nonTmVars == <<taskVars, mbVars, vlVars, beVars, slVars, wbVars>>
nonSlVars == <<taskVars, mbVars, vlVars, beVars, wbVars>>
nonVlVars == <<taskVars, mbVars, tmVars, beVars, slVars, wbVars>>
nonBeVars == <<taskVars, mbVars, tmVars, vlVars, slVars, wbVars>>
nonWbVars == <<taskVars, mbVars, tmVars, vlVars, beVars, slVars>>

Contexts == {"main", "worker"}

\* async_task::spawn: the state of a fresh task is SCHEDULED | TASK | REFERENCE.
NewState == [scheduled |-> TRUE, running |-> FALSE, completed |-> FALSE,
             closed |-> FALSE, task |-> TRUE, awaiter |-> FALSE]
NoState == [scheduled |-> FALSE, running |-> FALSE, completed |-> FALSE,
            closed |-> FALSE, task |-> FALSE, awaiter |-> FALSE]

TaskInit ==
    /\ kind = [t \in Tasks |-> None]
    /\ prio = [t \in Tasks |-> None]
    /\ sched = [t \in Tasks |-> None]
    /\ fut = [t \in Tasks |-> [suspended |-> 0, alive |-> FALSE]]
    /\ st = [t \in Tasks |-> NoState]
    /\ output = [t \in Tasks |-> <<>>]
    /\ handle = [t \in Tasks |-> None]
    /\ delivered = [t \in Tasks |-> <<>>]
    /\ cancelRet = [t \in Tasks |-> <<>>]
    /\ drops = [t \in Tasks |-> 0]
    /\ cancelEffect = [t \in Tasks |-> FALSE]
    /\ panicked = [t \in Tasks |-> None]
    /\ produced = [t \in Tasks |-> FALSE]
    /\ mainQ = <<>>
    /\ globalQ = [q \in QueuePriority |-> <<>>]
    /\ runs = [t \in Tasks |-> [c \in Contexts |-> 0]]
    /\ subLog = [t \in Tasks |-> <<>>]
    /\ ranOn = [t \in Tasks |-> {}]
    /\ wakerOut = [t \in Tasks |-> FALSE]


\* ------------------------------------------------- the schedule closures

\* Mutant: the closure forgets the caller's priority and submits at Default.
SpawnWithPriorityClosureDefault(p) == [via |-> "exec", priority |-> PriorityDefault]

\* spawn_with_priority: |runnable| exec(move || runnable.run(), priority).
SpawnWithPriorityClosure(p) == [via |-> "exec", priority |-> p]

\* spawn_local: |runnable| exec_main(move || runnable.run()).
SpawnLocalClosure == [via |-> "exec_main", priority |-> None]

\* spawn_main: |runnable| exec_main(move || runnable.run()).
SpawnMainClosure == [via |-> "exec_main", priority |-> None]

\* Mutant: the closure submits to a worker through exec.
OnMainClosureExec == [via |-> "exec", priority |-> PriorityDefault]

\* LocalTask::on_main: |runnable| exec_main(move || runnable.run()).
OnMainClosure == [via |-> "exec_main", priority |-> None]

\* ------------------------------------------------------- the GCD backend

\* ApplePlatformExecutor::exec_main: Queue::main().exec_async(f).
ExecMain(mq, t) == Append(mq, t)

\* ApplePlatformExecutor::exec: Queue::global(priority.into()).exec_async(f).
Exec(gq, t, p) == [gq EXCEPT ![QueuePriorityOf(p)] = Append(@, t)]

\* The schedule closure of task t is called: one resumption is submitted.
Submit(t, c) ==
    /\ IF c.via = "exec_main"
          THEN mainQ' = ExecMain(mainQ, t) /\ UNCHANGED globalQ
          ELSE globalQ' = Exec(globalQ, t, c.priority) /\ UNCHANGED mainQ
    /\ subLog' = [subLog EXCEPT ![t] = Append(@, c)]

NoSubmit == UNCHANGED <<mainQ, globalQ, subLog>>

\* s without its i-th element.
RemoveAt(s, i) == SubSeq(s, 1, i - 1) \o SubSeq(s, i + 1, Len(s))

\* --------------------------------------- async_task's state transitions

\* Mutant: a wake submits the task even after it was closed.
WakeStepIgnoreClosed(s) ==
    IF s.completed \/ s.scheduled
       THEN [st |-> s, submit |-> FALSE]
       ELSE [st |-> [s EXCEPT !.scheduled = TRUE], submit |-> ~s.running]

\* Mutant: a wake submits the task even while it is running.
WakeStepAlwaysSubmit(s) ==
    IF s.completed \/ s.closed \/ s.scheduled
       THEN [st |-> s, submit |-> FALSE]
       ELSE [st |-> [s EXCEPT !.scheduled = TRUE], submit |-> TRUE]

\* Mutant: a wake that arrives while the task is being polled is dropped.
WakeStepLostWhileRunning(s) ==
    IF s.completed \/ s.closed \/ s.scheduled \/ s.running
       THEN [st |-> s, submit |-> FALSE]
       ELSE [st |-> [s EXCEPT !.scheduled = TRUE], submit |-> TRUE]

\* Waker::wake: nothing for a completed, closed or already scheduled task;
\* otherwise SCHEDULED is set, and the task is submitted unless it is running
\* (a running task resubmits itself when its poll returns).
WakeStep(s) ==
    IF s.completed \/ s.closed \/ s.scheduled
       THEN [st |-> s, submit |-> FALSE]
       ELSE [st |-> [s EXCEPT !.scheduled = TRUE], submit |-> ~s.running]

\* Runnable::run, before the poll: a closed task is not polled, its future is
\* dropped; otherwise SCHEDULED is cleared and RUNNING set.
RunStart(s) ==
    IF s.closed
       THEN [st |-> [s EXCEPT !.scheduled = FALSE, !.awaiter = FALSE], poll |-> FALSE]
       ELSE [st |-> [s EXCEPT !.scheduled = FALSE, !.running = TRUE], poll |-> TRUE]

\* Mutant: a task woken while it was running is not submitted again.
RunPendingNoResubmit(s) ==
    IF s.closed
       THEN [st |-> [s EXCEPT !.running = FALSE, !.scheduled = FALSE, !.awaiter = FALSE],
             submit |-> FALSE, dropFuture |-> TRUE]
       ELSE [st |-> [s EXCEPT !.running = FALSE],
             submit |-> FALSE, dropFuture |-> FALSE]

\* Runnable::run, the poll returned Pending: a task closed meanwhile drops its
\* future; a task woken while running is submitted again.
RunPending(s) ==
    IF s.closed
       THEN [st |-> [s EXCEPT !.running = FALSE, !.scheduled = FALSE, !.awaiter = FALSE],
             submit |-> FALSE, dropFuture |-> TRUE]
       ELSE [st |-> [s EXCEPT !.running = FALSE],
             submit |-> s.scheduled, dropFuture |-> FALSE]

\* Runnable::run, the poll returned Ready: the output is written, and dropped
\* at once when the handle is gone or the task was closed (cancelled).
RunReady(s) ==
    [st |-> [s EXCEPT !.running = FALSE, !.scheduled = FALSE, !.completed = TRUE,
                      !.closed = (s.closed \/ ~s.task), !.awaiter = FALSE],
     dropOutput |-> (s.closed \/ ~s.task)]

\* Mutant: handing out the output does not close the task.
PollTaskNoClose(s) ==
    IF s.closed
       THEN IF s.scheduled \/ s.running
               THEN [st |-> [s EXCEPT !.awaiter = TRUE], res |-> "pending"]
               ELSE [st |-> s, res |-> "none"]
       ELSE IF ~s.completed
               THEN [st |-> [s EXCEPT !.awaiter = TRUE], res |-> "pending"]
               ELSE [st |-> [s EXCEPT !.awaiter = FALSE], res |-> "some"]

\* Task::poll_task: Pending while the task has not completed (or, closed, is
\* still scheduled or running); Some(output) exactly once, closing the task;
\* None for a closed task that is neither scheduled nor running.
PollTask(s) ==
    IF s.closed
       THEN IF s.scheduled \/ s.running
               THEN [st |-> [s EXCEPT !.awaiter = TRUE], res |-> "pending"]
               ELSE [st |-> s, res |-> "none"]
       ELSE IF ~s.completed
               THEN [st |-> [s EXCEPT !.awaiter = TRUE], res |-> "pending"]
               ELSE [st |-> [s EXCEPT !.closed = TRUE, !.awaiter = FALSE], res |-> "some"]

\* Task::set_canceled: nothing for a completed or closed task; otherwise the
\* task is closed, and an idle task is submitted once more so that the
\* executor drops its future.
SetCanceled(s) ==
    IF s.completed \/ s.closed
       THEN [st |-> s, submit |-> FALSE, effect |-> FALSE]
       ELSE [st |-> [s EXCEPT !.closed = TRUE, !.awaiter = FALSE,
                              !.scheduled = (s.scheduled \/ ~s.running)],
             submit |-> (~s.scheduled /\ ~s.running), effect |-> TRUE]

\* Task::detach (set_detached): the TASK bit is cleared; an output that is
\* already there and not taken is dropped and the task closed.
SetDetached(s) ==
    [st |-> [s EXCEPT !.task = FALSE, !.awaiter = FALSE,
                      !.closed = (s.closed \/ s.completed)],
     dropOutput |-> (s.completed /\ ~s.closed)]

\* What Task::poll makes of poll_task's answer: None is the panic
\* "Task polled after completion" (expect).
TaskPollOutcome(res) ==
    CASE res = "pending" -> "pending"
      [] res = "some" -> "ready"
      [] OTHER -> "panic"

\* Mutant: cancel awaits the handle itself, which panics on None.
CancelOutcomeExpect(res) ==
    CASE res = "pending" -> "pending"
      [] res = "some" -> "ready"
      [] OTHER -> "panic"

\* What cancel().await makes of poll_task's answer: the fallible poll, where
\* None is an ordinary result.
CancelOutcome(res) ==
    CASE res = "pending" -> "pending"
      [] OTHER -> "ready"

\* ------------------------------------------------------------ the spawns

\* async_task::spawn(future, schedule) followed by runnable.schedule(): the
\* task is created SCHEDULED and its first resumption is submitted through
\* the schedule closure c.
CreateTask(t, k, p, c) ==
    /\ kind[t] = None
    /\ \A u \in Tasks : u < t => kind[u] # None
    /\ kind' = [kind EXCEPT ![t] = k]
    /\ prio' = [prio EXCEPT ![t] = p]
    /\ sched' = [sched EXCEPT ![t] = c]
    /\ fut' = [fut EXCEPT ![t] = [suspended |-> 0, alive |-> TRUE]]
    /\ st' = [st EXCEPT ![t] = NewState]
    /\ handle' = [handle EXCEPT ![t] = "held"]
    /\ Submit(t, c)
    /\ UNCHANGED <<output, delivered, cancelRet, drops, cancelEffect, panicked,
                   produced, runs, ranOn, wakerOut>>
    /\ UNCHANGED nonTaskVars

spawn_with_priority(t, k, priority) ==
    CreateTask(t, k, IF k = "spawn" THEN None ELSE priority,
               SpawnWithPriorityClosure(priority))

spawn(t) == spawn_with_priority(t, "spawn", PriorityDefault)

spawn_local(t) == CreateTask(t, "spawn_local", None, SpawnLocalClosure)

spawn_main(t) == CreateTask(t, "spawn_main", None, SpawnMainClosure)

on_main(t) == CreateTask(t, "on_main", None, OnMainClosure)

Spawn(t) == spawn(t)

SpawnWithPriority(t) ==
    \E p \in Priority : spawn_with_priority(t, "spawn_with_priority", p)

SpawnLocal(t) == spawn_local(t)

SpawnMain(t) == spawn_main(t)

OnMain(t) == on_main(t)

\* ------------------------------------------------------- the resumptions

\* move || { runnable.run(); } starts on context c.
BeginRun(t, c) ==
    LET r == RunStart(st[t]) IN
    /\ st' = [st EXCEPT ![t] = r.st]
    /\ ranOn' = [ranOn EXCEPT ![t] = @ \cup {c}]
    /\ IF r.poll
          THEN /\ runs' = [runs EXCEPT ![t][c] = @ + 1]
               /\ wakerOut' = [wakerOut EXCEPT ![t] = TRUE]
               /\ UNCHANGED fut
          ELSE /\ fut' = [fut EXCEPT ![t].alive = FALSE]
               /\ UNCHANGED <<runs, wakerOut>>
    /\ UNCHANGED <<kind, prio, sched, output, handle, delivered, cancelRet, drops,
                   cancelEffect, panicked, produced, subLog>>
    /\ UNCHANGED nonTaskVars

\* The main queue is serial and FIFO: its head starts when no job of the main
\* context is in progress.
RunMain ==
    /\ mainQ # <<>>
    /\ \A u \in Tasks : runs[u]["main"] = 0
    /\ BeginRun(Head(mainQ), "main")
    /\ mainQ' = Tail(mainQ)
    /\ UNCHANGED globalQ

\* A global queue is concurrent: any of its jobs may start on a worker.
RunGlobal(q) ==
    \E i \in 1..Len(globalQ[q]) :
        /\ BeginRun(globalQ[q][i], "worker")
        /\ globalQ' = [globalQ EXCEPT ![q] = RemoveAt(@, i)]
        /\ UNCHANGED mainQ

\* The poll of the computation returns Pending (it suspends once more), and
\* run() finishes.
EndRunPending(t, c) ==
    /\ runs[t][c] > 0
    /\ fut[t].suspended < MaxSuspend
    /\ runs' = [runs EXCEPT ![t][c] = @ - 1]
    /\ LET r == RunPending(st[t]) IN
       /\ st' = [st EXCEPT ![t] = r.st]
       /\ fut' = [fut EXCEPT ![t].suspended = @ + 1,
                             ![t].alive = @ /\ ~r.dropFuture]
       /\ IF r.submit THEN Submit(t, sched[t]) ELSE NoSubmit
    /\ UNCHANGED <<kind, prio, sched, output, handle, delivered, cancelRet, drops,
                   cancelEffect, panicked, produced, ranOn, wakerOut>>
    /\ UNCHANGED nonTaskVars

\* The poll of the computation returns Ready(v), and run() finishes.
EndRunReady(t, c) ==
    /\ runs[t][c] > 0
    /\ runs' = [runs EXCEPT ![t][c] = @ - 1]
    /\ \E v \in Values :
         LET r == RunReady(st[t]) IN
         /\ st' = [st EXCEPT ![t] = r.st]
         /\ fut' = [fut EXCEPT ![t].alive = FALSE]
         /\ output' = [output EXCEPT ![t] = <<v>>]
         /\ produced' = [produced EXCEPT ![t] = TRUE]
         /\ drops' = [drops EXCEPT ![t] = IF r.dropOutput THEN @ + 1 ELSE @]
    /\ NoSubmit
    /\ UNCHANGED <<kind, prio, sched, handle, delivered, cancelRet, cancelEffect,
                   panicked, ranOn, wakerOut>>
    /\ UNCHANGED nonTaskVars

\* Whatever the computation awaits wakes the waker it was polled with.
Wake(t) ==
    /\ wakerOut[t]
    /\ LET r == WakeStep(st[t]) IN
       /\ st' = [st EXCEPT ![t] = r.st]
       /\ IF r.submit THEN Submit(t, sched[t]) ELSE NoSubmit
    /\ UNCHANGED <<kind, prio, sched, fut, output, handle, delivered, cancelRet,
                   drops, cancelEffect, panicked, produced, runs, ranOn, wakerOut>>
    /\ UNCHANGED nonTaskVars

\* ------------------------------------------------------------ the handle

\* impl Future for Task / LocalTask: poll (LocalTask: self.inner.poll(cx)).
\* The owner polls first and then whenever its waker was notified.
HandlePoll(t) ==
    /\ handle[t] = "held"
    /\ ~st[t].awaiter
    /\ LET r == PollTask(st[t])
           o == TaskPollOutcome(r.res) IN
       /\ st' = [st EXCEPT ![t] = r.st]
       /\ delivered' = [delivered EXCEPT ![t] =
                           IF o = "ready" THEN @ \o output[t] ELSE @]
       /\ panicked' = [panicked EXCEPT ![t] = IF o = "panic" THEN "poll" ELSE @]
       /\ handle' = [handle EXCEPT ![t] = IF o = "panic" THEN "panicked" ELSE @]
    /\ NoSubmit
    /\ UNCHANGED <<kind, prio, sched, fut, output, cancelRet, drops, cancelEffect,
                   produced, mainQ, runs, ranOn, wakerOut>>
    /\ UNCHANGED nonTaskVars

\* cancel(self), up to its await: set_canceled.
CancelCall(t) ==
    /\ handle[t] = "held"
    /\ LET r == SetCanceled(st[t]) IN
       /\ st' = [st EXCEPT ![t] = r.st]
       /\ cancelEffect' = [cancelEffect EXCEPT ![t] = r.effect]
       /\ IF r.submit THEN Submit(t, sched[t]) ELSE NoSubmit
    /\ handle' = [handle EXCEPT ![t] = "cancelling"]
    /\ UNCHANGED <<kind, prio, sched, fut, output, delivered, cancelRet, drops,
                   panicked, produced, runs, ranOn, wakerOut>>
    /\ UNCHANGED nonTaskVars

\* cancel(self), its await: the fallible poll of the handle.  LocalTask::cancel
\* throws the answer away (";"); Task::cancel returns it to the caller.
CancelPoll(t) ==
    /\ handle[t] = "cancelling"
    /\ ~st[t].awaiter
    /\ LET r == PollTask(st[t])
           o == CancelOutcome(r.res) IN
       /\ st' = [st EXCEPT ![t] = r.st]
       /\ handle' = [handle EXCEPT ![t] =
                        CASE o = "ready" -> "cancelled"
                          [] o = "panic" -> "panicked"
                          [] OTHER -> @]
       /\ panicked' = [panicked EXCEPT ![t] = IF o = "panic" THEN "cancel" ELSE @]
       /\ drops' = [drops EXCEPT ![t] =
                       IF r.res = "some" /\ kind[t] = "on_main" THEN @ + 1 ELSE @]
       /\ cancelRet' = [cancelRet EXCEPT ![t] =
                           IF r.res = "some" /\ kind[t] # "on_main" THEN output[t] ELSE @]
    /\ NoSubmit
    /\ UNCHANGED <<kind, prio, sched, fut, output, delivered, cancelEffect,
                   produced, runs, ranOn, wakerOut>>
    /\ UNCHANGED nonTaskVars

\* Task::detach(), as in spawn(hello()).detach().
Detach(t) ==
    /\ handle[t] = "held"
    /\ kind[t] # "on_main"
    /\ LET r == SetDetached(st[t]) IN
       /\ st' = [st EXCEPT ![t] = r.st]
       /\ drops' = [drops EXCEPT ![t] = IF r.dropOutput THEN @ + 1 ELSE @]
    /\ handle' = [handle EXCEPT ![t] = "detached"]
    /\ NoSubmit
    /\ UNCHANGED <<kind, prio, sched, fut, output, delivered, cancelRet,
                   cancelEffect, panicked, produced, runs, ranOn, wakerOut>>
    /\ UNCHANGED nonTaskVars

TaskNext ==
    \/ \E t \in Tasks : Spawn(t)
    \/ \E t \in Tasks : SpawnWithPriority(t)
    \/ \E t \in Tasks : SpawnLocal(t)
    \/ \E t \in Tasks : SpawnMain(t)
    \/ \E t \in Tasks : OnMain(t)
    \/ RunMain
    \/ \E q \in QueuePriority : RunGlobal(q)
    \/ \E t \in Tasks, c \in Contexts : EndRunPending(t, c)
    \/ \E t \in Tasks, c \in Contexts : EndRunReady(t, c)
    \/ \E t \in Tasks : Wake(t)
    \/ \E t \in Tasks : HandlePoll(t)
    \/ \E t \in Tasks : CancelCall(t)
    \/ \E t \in Tasks : CancelPoll(t)
    \/ \E t \in Tasks : Detach(t)

\* ---------------------------------------------------------------- Mailbox

\* Threads calling handle and call on the shared &Mailbox.
NumProducers == 2
\* Jobs handed to handle/call over the run, all producers together.
MaxJobs == 3

Producers == 1..NumProducers
\* The owned value is a map; the doc examples and the spec's scenario use one key.
Keys == {"k"}
\* Values the handle jobs insert (absent keys read as 0: unwrap_or(0)).
InsertVals == {1, 2}

\* HashMap::new(): no key present.
EmptyMap == [k \in Keys |-> 0]

\* What dropping the task handle `_fut` at the end of Mailbox::new does, by the
\* executor's task type: an async_task::Task cancels its task when dropped, a
\* handle kept in ManuallyDrop leaves the task alone.
HandleDrop == {"leak", "cancel"}

\* The state word of the background task when Mailbox::new returns.
AfterNew(d) ==
    IF d = "cancel"
       THEN SetDetached(SetCanceled(NewState).st).st
       ELSE NewState

MbInit ==
    /\ mbJobs = <<>>
    /\ mbQueue = <<>>
    /\ mbValue = EmptyMap
    /\ mbActive = {}
    /\ mbApplied = <<>>
    /\ mbSt = NoState
    /\ mbSubmitted = 0
    /\ mbRuns = 0
    /\ mbListening = FALSE
    /\ mbWait = [p \in Producers |-> <<>>]
    /\ mbResp = [p \in Producers |-> <<>>]
    /\ mbResults = <<>>
    /\ mbSender = FALSE
    /\ mbReceiver = FALSE
    /\ mbDropped = {}
    /\ mbRespClosed = [p \in Producers |-> FALSE]
    /\ mbCallPanicked = [p \in Producers |-> FALSE]
    /\ mbAtDrop = <<>>

\* Mailbox::new(executor, value): the channel is created and the background
\* task spawned and scheduled on the main context; the handle _fut is dropped.
MailboxNew(d) ==
    /\ ~mbSender /\ mbAtDrop = <<>>
    /\ mbSender' = TRUE
    /\ mbReceiver' = TRUE
    /\ mbSt' = AfterNew(d)
    /\ mbSubmitted' = 1
    /\ UNCHANGED <<mbJobs, mbQueue, mbValue, mbActive, mbApplied, mbRuns, mbListening,
                   mbWait, mbResp, mbResults, mbDropped, mbRespClosed, mbCallPanicked,
                   mbAtDrop>>
    /\ UNCHANGED nonMbVars

\* Mutant: the channel hands the newest job to the receiver.
ChannelRecvLast(q) == [job |-> q[Len(q)], rest |-> SubSeq(q, 1, Len(q) - 1)]

\* receiver.recv() on a non-empty unbounded channel: the oldest job.
ChannelRecv(q) == [job |-> Head(q), rest |-> Tail(q)]

\* Mutant: a job is put at the front of the channel.
ChannelSendFront(q, j) == <<j>> \o q

\* sender.try_send(job) on the unbounded channel: the job goes to the tail.
ChannelSend(q, j) == Append(q, j)

\* Mutant: try_send accepts the job although the receiver is gone.
TrySendIgnoreClosed(q, j, open) == [queue |-> ChannelSend(q, j), ok |-> TRUE]

\* let _ = self.sender.try_send(job): Ok on an open channel (unbounded, never
\* full); on a closed channel Err(Closed(job)), the job comes back inside the
\* error and is dropped with it.
TrySend(q, j, open) ==
    IF open THEN [queue |-> ChannelSend(q, j), ok |-> TRUE]
            ELSE [queue |-> q, ok |-> FALSE]

\* Mutant: recv reports the closed channel although jobs are still queued.
RecvOutcomeClosedEarly(q, sender) ==
    IF ~sender THEN "closed" ELSE IF q # <<>> THEN "ok" ELSE "pending"

\* receiver.recv().await: Ok(job) while jobs are queued, even on a closed
\* channel; Err once the channel is closed (no sender left) and empty; pending
\* on an empty open channel.
RecvOutcome(q, sender) ==
    IF q # <<>> THEN "ok" ELSE IF ~sender THEN "closed" ELSE "pending"

\* Mutant: the loop receives the next job without waiting for update(&value).
LoopMayRecvAlways(active) == TRUE

\* while let Ok(update) = receiver.recv().await { update(&value); }: the next
\* recv happens after update returned.
LoopMayRecv(active) == active = {}

\* update(&value) for a handle job (map.insert(key, val)); a call job only reads.
ApplyJob(v, job) ==
    IF job.op = "handle" THEN [v EXCEPT ![job.key] = job.val] ELSE v

\* let res = f(v) for a call job: map.get(key).copied().unwrap_or(0).
CallResult(v, job) == v[job.key]

\* s.try_send(res) on the bounded(1) response channel: refused when full.
RespSend(r, res) == IF r = <<>> THEN <<res>> ELSE r

\* Mutant: a closed and empty response channel keeps the caller waiting.
RespRecvWaitsOnClosed(r, closed) == IF r # <<>> THEN "some" ELSE "pending"

\* r.recv().await on the response channel: the response when there is one,
\* Err when the channel is empty and its sender s was dropped, else pending.
RespRecv(r, closed) ==
    IF r # <<>> THEN "some" ELSE IF closed THEN "closed" ELSE "pending"

\* The channel's buffer: once sender and receiver are both gone the channel is
\* freed and the jobs still queued are dropped without being run.
QueueKept(q, sender, receiver) == IF sender \/ receiver THEN q ELSE <<>>

\* The elements of a sequence.
Range(s) == {s[i] : i \in 1..Len(s)}

\* try_send (or closing the channel) notifies the listener of a waiting recv,
\* which wakes the background task (its schedule closure submits it through
\* exec_main).
MbNotify ==
    IF mbListening
       THEN LET r == WakeStep(mbSt) IN
            /\ mbListening' = FALSE
            /\ mbSt' = r.st
            /\ mbSubmitted' = IF r.submit THEN mbSubmitted + 1 ELSE mbSubmitted
       ELSE UNCHANGED <<mbListening, mbSt, mbSubmitted>>

\* Mailbox::handle body: let _ = self.sender.try_send(Box::new(update)).
Enqueue(job) ==
    LET id == Len(mbJobs) + 1
        r == TrySend(mbQueue, id, mbReceiver)
    IN  /\ mbJobs' = Append(mbJobs, job)
        /\ mbQueue' = r.queue
        /\ mbDropped' = IF r.ok THEN mbDropped ELSE mbDropped \cup {id}
        /\ IF r.ok THEN MbNotify ELSE UNCHANGED <<mbListening, mbSt, mbSubmitted>>

\* mailbox.handle(|map| map.insert(k, v)) by producer p.
Handle(p, k, v) ==
    /\ mbSender
    /\ Len(mbJobs) < MaxJobs
    /\ mbWait[p] = <<>> /\ ~mbCallPanicked[p]
    /\ Enqueue([producer |-> p, op |-> "handle", key |-> k, val |-> v])
    /\ UNCHANGED <<mbValue, mbActive, mbApplied, mbRuns, mbWait, mbResp, mbResults,
                   mbSender, mbReceiver, mbRespClosed, mbCallPanicked>>
    /\ UNCHANGED mbAtDrop
    /\ UNCHANGED nonMbVars

\* mailbox.call(|map| map.get(k)...) by producer p, up to r.recv().await. A job
\* dropped by try_send takes the response sender s with it, which closes the
\* response channel.
CallStart(p, k) ==
    /\ mbSender
    /\ Len(mbJobs) < MaxJobs
    /\ mbWait[p] = <<>> /\ ~mbCallPanicked[p]
    /\ Enqueue([producer |-> p, op |-> "call", key |-> k, val |-> 0])
    /\ mbWait' = [mbWait EXCEPT ![p] = <<Len(mbJobs) + 1>>]
    /\ mbRespClosed' = [mbRespClosed EXCEPT ![p] = (Len(mbJobs) + 1) \in mbDropped']
    /\ UNCHANGED <<mbValue, mbActive, mbApplied, mbRuns, mbResp, mbResults,
                   mbSender, mbReceiver, mbCallPanicked>>
    /\ UNCHANGED mbAtDrop
    /\ UNCHANGED nonMbVars

\* r.recv().await of producer p's call finds the response and returns it.
CallReturn(p) ==
    /\ mbWait[p] # <<>>
    /\ RespRecv(mbResp[p], mbRespClosed[p]) = "some"
    /\ mbResults' = Append(mbResults, [job |-> mbWait[p][1], val |-> mbResp[p][1]])
    /\ mbResp' = [mbResp EXCEPT ![p] = <<>>]
    /\ mbRespClosed' = [mbRespClosed EXCEPT ![p] = FALSE]
    /\ mbWait' = [mbWait EXCEPT ![p] = <<>>]
    /\ UNCHANGED <<mbJobs, mbQueue, mbValue, mbActive, mbApplied, mbSt, mbSubmitted,
                   mbRuns, mbListening, mbSender, mbReceiver, mbDropped,
                   mbCallPanicked>>
    /\ UNCHANGED mbAtDrop
    /\ UNCHANGED nonMbVars

\* r.recv().await of producer p's call finds the response channel closed and
\* empty: expect("Mailbox call failed") panics.
CallPanic(p) ==
    /\ mbWait[p] # <<>>
    /\ RespRecv(mbResp[p], mbRespClosed[p]) = "closed"
    /\ mbCallPanicked' = [mbCallPanicked EXCEPT ![p] = TRUE]
    /\ mbWait' = [mbWait EXCEPT ![p] = <<>>]
    /\ UNCHANGED <<mbJobs, mbQueue, mbValue, mbActive, mbApplied, mbSt, mbSubmitted,
                   mbRuns, mbListening, mbResp, mbResults, mbSender, mbReceiver,
                   mbDropped, mbRespClosed>>
    /\ UNCHANGED mbAtDrop
    /\ UNCHANGED nonMbVars

\* The Mailbox is dropped (no call borrows it): its Sender was the last one,
\* so the channel is closed and a waiting recv is notified.
DropMailbox ==
    /\ mbSender
    /\ \A p \in Producers : mbWait[p] = <<>>
    /\ mbSender' = FALSE
    /\ mbQueue' = QueueKept(mbQueue, FALSE, mbReceiver)
    /\ mbDropped' = mbDropped \cup (Range(mbQueue) \ Range(mbQueue'))
    /\ MbNotify
    /\ mbAtDrop' = <<Len(mbApplied)>>
    /\ UNCHANGED <<mbJobs, mbValue, mbActive, mbApplied, mbRuns, mbWait, mbResp,
                   mbResults, mbReceiver, mbRespClosed, mbCallPanicked>>
    /\ UNCHANGED nonMbVars

\* The main context starts a resumption of the background task; a task that
\* was closed is not polled: its future (receiver and value) is dropped.
MbRunBegin ==
    /\ mbSubmitted > 0
    /\ mbRuns = 0
    /\ LET r == RunStart(mbSt) IN
       /\ mbSt' = r.st
       /\ mbRuns' = IF r.poll THEN mbRuns + 1 ELSE mbRuns
       /\ mbReceiver' = (mbReceiver /\ r.poll)
       /\ mbListening' = (mbListening /\ r.poll)
    /\ mbQueue' = QueueKept(mbQueue, mbSender, mbReceiver')
    /\ mbDropped' = mbDropped \cup (Range(mbQueue) \ Range(mbQueue'))
    /\ mbSubmitted' = mbSubmitted - 1
    /\ UNCHANGED <<mbJobs, mbValue, mbActive, mbApplied, mbWait, mbResp, mbResults,
                   mbSender, mbRespClosed, mbCallPanicked>>
    /\ UNCHANGED mbAtDrop
    /\ UNCHANGED nonMbVars

\* receiver.recv().await returns Ok(update).
MbRecv ==
    /\ mbRuns > 0
    /\ LoopMayRecv(mbActive)
    /\ RecvOutcome(mbQueue, mbSender) = "ok"
    /\ mbQueue # <<>>
    /\ LET r == ChannelRecv(mbQueue) IN
       /\ mbActive' = mbActive \cup {r.job}
       /\ mbQueue' = r.rest
    /\ UNCHANGED <<mbJobs, mbValue, mbApplied, mbSt, mbSubmitted, mbRuns,
                   mbListening, mbWait, mbResp, mbResults, mbSender, mbReceiver,
                   mbDropped, mbRespClosed, mbCallPanicked>>
    /\ UNCHANGED mbAtDrop
    /\ UNCHANGED nonMbVars

\* update(&value) returns: the job has been applied; a call job has computed
\* f(v), sent it over its response channel and dropped the sender s.
MbApply(j) ==
    /\ j \in mbActive
    /\ LET job == mbJobs[j] IN
       /\ mbValue' = ApplyJob(mbValue, job)
       /\ mbResp' = IF job.op = "call"
                       THEN [mbResp EXCEPT ![job.producer] =
                               RespSend(@, CallResult(mbValue, job))]
                       ELSE mbResp
       /\ mbRespClosed' = IF job.op = "call"
                             THEN [mbRespClosed EXCEPT ![job.producer] = TRUE]
                             ELSE mbRespClosed
    /\ mbActive' = mbActive \ {j}
    /\ mbApplied' = Append(mbApplied, j)
    /\ UNCHANGED <<mbJobs, mbQueue, mbSt, mbSubmitted, mbRuns, mbListening,
                   mbWait, mbResults, mbSender, mbReceiver, mbDropped,
                   mbCallPanicked>>
    /\ UNCHANGED mbAtDrop
    /\ UNCHANGED nonMbVars

\* receiver.recv().await finds the open channel empty: it listens and the poll
\* of the background task returns Pending.
MbRecvPending ==
    /\ mbRuns > 0
    /\ mbActive = {}
    /\ RecvOutcome(mbQueue, mbSender) = "pending"
    /\ LET r == RunPending(mbSt) IN
       /\ mbSt' = r.st
       /\ mbSubmitted' = IF r.submit THEN mbSubmitted + 1 ELSE mbSubmitted
       /\ mbReceiver' = ~r.dropFuture
       /\ mbListening' = ~r.dropFuture
    /\ mbRuns' = mbRuns - 1
    /\ UNCHANGED <<mbJobs, mbQueue, mbValue, mbActive, mbApplied, mbWait, mbResp,
                   mbResults, mbSender, mbDropped, mbRespClosed, mbCallPanicked>>
    /\ UNCHANGED mbAtDrop
    /\ UNCHANGED nonMbVars

\* receiver.recv().await returns Err (channel closed and empty): the loop
\* ends, the future returns Ready(()) and is dropped with receiver and value.
MbRecvClosed ==
    /\ mbRuns > 0
    /\ mbActive = {}
    /\ RecvOutcome(mbQueue, mbSender) = "closed"
    /\ mbSt' = RunReady(mbSt).st
    /\ mbReceiver' = FALSE
    /\ mbQueue' = QueueKept(mbQueue, mbSender, FALSE)
    /\ mbDropped' = mbDropped \cup (Range(mbQueue) \ Range(mbQueue'))
    /\ mbRuns' = mbRuns - 1
    /\ UNCHANGED <<mbJobs, mbValue, mbActive, mbApplied, mbSubmitted, mbListening,
                   mbWait, mbResp, mbResults, mbSender, mbRespClosed,
                   mbCallPanicked>>
    /\ UNCHANGED mbAtDrop
    /\ UNCHANGED nonMbVars

MbNext ==
    \/ \E d \in HandleDrop : MailboxNew(d)
    \/ \E p \in Producers, k \in Keys, v \in InsertVals : Handle(p, k, v)
    \/ \E p \in Producers, k \in Keys : CallStart(p, k)
    \/ \E p \in Producers : CallReturn(p)
    \/ \E p \in Producers : CallPanic(p)
    \/ DropMailbox
    \/ MbRunBegin
    \/ MbRecv
    \/ \E j \in mbActive : MbApply(j)
    \/ MbRecvPending
    \/ MbRecvClosed

\* ------------------------------------------------------------------ Timer

\* Polls of the Timer over the run.
MaxPolls == 3
\* The clock stops here.
MaxTime == 3
\* Clock units per second (Duration::from_secs).
UnitsPerSec == 2

\* Durations passed to Timer::after, in clock units.
Durations == {0, 1, 2}
\* Seconds passed to Timer::after_secs and sleep.
Secs == {0, 1}
\* The wakers of the contexts a poll can come with.
Wakers == {1, 2}

\* Duration::from_secs(secs).
FromSecs(n) == n * UnitsPerSec

TimerInit ==
    /\ now = 0
    /\ tmCtor = <<>>
    /\ tmDuration = <<>>
    /\ tmFinished = FALSE
    /\ tmPos = "idle"
    /\ tmPollLog = <<>>
    /\ tmRegLog = <<>>
    /\ tmDelayed = {}
    /\ tmWoken = <<>>
    /\ tmPollWakers = <<>>

\* Mutant: a poll reports Ready as soon as the duration was consumed.
TimerPollReadyWhenTaken(finished, duration) ==
    IF finished \/ duration = <<>>
       THEN [res |-> "ready", register |-> FALSE, duration |-> duration]
       ELSE [res |-> "pending", register |-> TRUE, duration |-> <<>>]

\* Mutant: poll does not look at the completion flag.
TimerPollNoFlagCheck(finished, duration) ==
    IF duration # <<>>
       THEN [res |-> "pending", register |-> TRUE, duration |-> <<>>]
       ELSE [res |-> "pending", register |-> FALSE, duration |-> duration]

\* Mutant: poll reads the duration without taking it.
TimerPollKeepsDuration(finished, duration) ==
    IF finished
       THEN [res |-> "ready", register |-> FALSE, duration |-> duration]
       ELSE [res |-> "pending", register |-> duration # <<>>, duration |-> duration]

\* impl Future for Timer, poll: Ready when finished is set; otherwise the
\* duration, if still there, is taken and a callback registered; Pending.
TimerPoll(finished, duration) ==
    IF finished
       THEN [res |-> "ready", register |-> FALSE, duration |-> duration]
       ELSE IF duration # <<>>
               THEN [res |-> "pending", register |-> TRUE, duration |-> <<>>]
               ELSE [res |-> "pending", register |-> FALSE, duration |-> duration]

\* The priority poll passes to exec_after.
TimerPriority == "Default"

\* Mutant: the backend holds the delayed job twice.
ExecAfterTwice(jobs, delay, w) ==
    jobs \cup {[due |-> now + delay, queue |-> q, waker |-> w, stage |-> "waiting"] :
                   q \in {"Default", "Background"}}

\* ApplePlatformExecutor::exec_after: the job is handed to the global queue
\* of default priority, to be run once delay has passed.
ExecAfter(jobs, delay, w) ==
    jobs \cup {[due |-> now + delay, queue |-> "Default", waker |-> w,
                stage |-> "waiting"]}

\* Timer::after(duration).
NewTimer(via, arg, d) ==
    /\ tmCtor = <<>>
    /\ tmCtor' = <<[via |-> via, arg |-> arg]>>
    /\ tmDuration' = <<d>>
    /\ UNCHANGED <<now, tmFinished, tmPos, tmPollLog, tmRegLog, tmDelayed, tmWoken,
                   tmPollWakers>>
    /\ UNCHANGED nonTmVars

TimerAfter(d) == NewTimer("after", d, d)

\* Timer::after_secs(secs) = Self::after(Duration::from_secs(secs)).
TimerAfterSecs(n) == NewTimer("after_secs", n, FromSecs(n))

\* sleep(secs): Timer::after(Duration::from_secs(secs)).await.
Sleep(n) == NewTimer("sleep", n, FromSecs(n))

\* A poll of the Timer with waker w by a task of priority p, from its load of
\* the flag to the call of exec_after; a poll that finds the flag set returns.
PollLoadRegister(w, p) ==
    /\ tmCtor # <<>>
    /\ tmPos = "idle"
    /\ Len(tmPollLog) < MaxPolls
    /\ LET r == TimerPoll(tmFinished, tmDuration) IN
       /\ tmDuration' = r.duration
       /\ IF r.register
             THEN /\ tmDelayed' = ExecAfter(tmDelayed, tmDuration[1], w)
                  /\ tmRegLog' = Append(tmRegLog,
                        [delay |-> tmDuration[1], priority |-> TimerPriority,
                         at |-> now, waker |-> w, poller |-> p,
                         poll |-> Len(tmPollLog) + 1])
             ELSE UNCHANGED <<tmDelayed, tmRegLog>>
       /\ IF r.res = "ready"
             THEN /\ tmPollLog' = Append(tmPollLog,
                                         [res |-> "ready", at |-> now])
                  /\ tmPos' = "idle"
             ELSE /\ tmPos' = "polling"
                  /\ tmPollLog' = Append(tmPollLog,
                                         [res |-> "polling", at |-> now])
    /\ tmPollWakers' = Append(tmPollWakers, w)
    /\ UNCHANGED <<now, tmCtor, tmFinished, tmWoken>>

TimerPollBegin(w, p) == PollLoadRegister(w, p) /\ UNCHANGED nonTmVars

\* The poll returns Poll::Pending.
PollPending ==
    /\ tmPos = "polling"
    /\ tmPos' = "idle"
    /\ tmPollLog' = [tmPollLog EXCEPT ![Len(tmPollLog)].res = "pending"]
    /\ UNCHANGED <<now, tmCtor, tmDuration, tmFinished, tmRegLog, tmDelayed, tmWoken,
                   tmPollWakers>>

TimerPollReturn == PollPending /\ UNCHANGED nonTmVars

\* Time passes.
Tick ==
    /\ now < MaxTime
    /\ now' = now + 1
    /\ UNCHANGED <<tmCtor, tmDuration, tmFinished, tmPos, tmPollLog, tmRegLog,
                   tmDelayed, tmWoken, tmPollWakers>>
    /\ UNCHANGED nonTmVars

\* The backend runs a delayed callback, not before it is due:
\* finished.store(true, Release).
CallbackStore(j) ==
    /\ j \in tmDelayed
    /\ j.stage = "waiting"
    /\ now >= j.due
    /\ tmFinished' = TRUE
    /\ tmDelayed' = (tmDelayed \ {j}) \cup {[j EXCEPT !.stage = "stored"]}
    /\ UNCHANGED <<now, tmCtor, tmDuration, tmPos, tmPollLog, tmRegLog, tmWoken,
                   tmPollWakers>>
    /\ UNCHANGED nonTmVars

\* Mutant: the callback wakes the waker of the latest poll.
WakerWakeLatest(j) ==
    /\ j \in tmDelayed
    /\ j.stage = "stored"
    /\ tmWoken' = Append(tmWoken, tmPollWakers[Len(tmPollWakers)])
    /\ tmDelayed' = tmDelayed \ {j}
    /\ UNCHANGED <<now, tmCtor, tmDuration, tmFinished, tmPos, tmPollLog, tmRegLog,
                   tmPollWakers>>

\* The callback goes on: waker.wake().
WakerWake(j) ==
    /\ j \in tmDelayed
    /\ j.stage = "stored"
    /\ tmWoken' = Append(tmWoken, j.waker)
    /\ tmDelayed' = tmDelayed \ {j}
    /\ UNCHANGED <<now, tmCtor, tmDuration, tmFinished, tmPos, tmPollLog, tmRegLog,
                   tmPollWakers>>

CallbackWake(j) == WakerWake(j) /\ UNCHANGED nonTmVars

TimerNext ==
    \/ \E d \in Durations : TimerAfter(d)
    \/ \E n \in Secs : TimerAfterSecs(n)
    \/ \E n \in Secs : Sleep(n)
    \/ \E w \in Wakers, p \in Priority : TimerPollBegin(w, p)
    \/ TimerPollReturn
    \/ Tick
    \/ \E j \in tmDelayed : CallbackStore(j)
    \/ \E j \in tmDelayed : CallbackWake(j)

\* --------------------------------------------------- LocalValue, OnceValue

\* Threads that can hold the value.
NumThreads == 2
\* Operations on the values over the run.
MaxOps == 4
\* Ref borrows alive at once.
MaxReaders == 2

Threads == 1..NumThreads

NoOp == [op |-> "none", thread |-> 0, res |-> "none", val |-> <<>>, flag |-> FALSE]

ValueInit ==
    /\ lvCreated = 0
    /\ lvValue = <<>>
    /\ lvState = "none"
    /\ ovCreated = 0
    /\ ovCell = <<>>
    /\ ovState = "none"
    /\ ovReaders = 0
    /\ ovWriter = FALSE
    /\ ovTaken = <<>>
    /\ vLast = NoOp
    /\ vOps = 0
    /\ aborted = FALSE

\* Mutant: the thread check always passes.
OnLocalAlways(created, th) == TRUE

\* LocalValue::on_local: self.created == current().id().
OnLocal(created, th) == created = th

\* Mutant: take reads the cell without emptying it.
CellTakeKeeps(cell) == [cell |-> cell, out |-> cell]

\* Option::take: the content is moved out and None left behind.
CellTake(cell) == [cell |-> <<>>, out |-> cell]

\* One more operation by thread th is recorded.
Did(op, th, res, val, flag) ==
    /\ vOps < MaxOps
    /\ ~aborted
    /\ vOps' = vOps + 1
    /\ vLast' = [op |-> op, thread |-> th, res |-> res, val |-> val, flag |-> flag]

lvOnly == <<ovCreated, ovCell, ovState, ovReaders, ovWriter, ovTaken>>
ovOnly == <<lvCreated, lvValue, lvState>>

\* LocalValue::new(value) on thread th.
LvNew(th, v) ==
    /\ lvState = "none"
    /\ lvCreated' = th
    /\ lvValue' = <<v>>
    /\ lvState' = "live"
    /\ Did("lv_new", th, "ok", <<>>, FALSE)
    /\ UNCHANGED <<lvOnly, aborted>>
    /\ UNCHANGED nonVlVars

\* local.on_local() on thread th.
LvOnLocal(th) ==
    /\ lvState = "live"
    /\ Did("lv_on_local", th, "ok", <<>>, OnLocal(lvCreated, th))
    /\ UNCHANGED <<lvCreated, lvValue, lvState, lvOnly, aborted>>
    /\ UNCHANGED nonVlVars

\* *local on thread th: assert!(self.on_local()), then &self.value.
LvDeref(th) ==
    /\ lvState = "live"
    /\ IF OnLocal(lvCreated, th)
          THEN Did("lv_deref", th, "ok", lvValue, FALSE)
          ELSE Did("lv_deref", th, "panic", <<>>, FALSE)
    /\ UNCHANGED <<lvCreated, lvValue, lvState, lvOnly, aborted>>
    /\ UNCHANGED nonVlVars

\* *local = v on thread th: assert!(self.on_local()), then &mut self.value.
LvDerefMut(th, v) ==
    /\ lvState = "live"
    /\ IF OnLocal(lvCreated, th)
          THEN Did("lv_deref_mut", th, "ok", lvValue, FALSE) /\ lvValue' = <<v>>
          ELSE Did("lv_deref_mut", th, "panic", <<>>, FALSE) /\ UNCHANGED lvValue
    /\ UNCHANGED <<lvCreated, lvState, lvOnly, aborted>>
    /\ UNCHANGED nonVlVars

\* local.into_inner() on thread th. A failed assert unwinds with self still
\* owned, so Drop runs on the same wrong thread and panics again: abort.
LvIntoInner(th) ==
    /\ lvState = "live"
    /\ IF OnLocal(lvCreated, th)
          THEN /\ Did("lv_into_inner", th, "ok", lvValue, FALSE)
               /\ lvValue' = <<>>
               /\ lvState' = "consumed"
               /\ UNCHANGED aborted
          ELSE /\ Did("lv_into_inner", th, "abort", <<>>, FALSE)
               /\ aborted' = TRUE
               /\ UNCHANGED <<lvValue, lvState>>
    /\ UNCHANGED <<lvCreated, lvOnly>>
    /\ UNCHANGED nonVlVars

\* drop(local) on thread th: the assert, then ManuallyDrop::take releases the
\* value; after a failed assert the value is never released.
LvDrop(th) ==
    /\ lvState = "live"
    /\ IF OnLocal(lvCreated, th)
          THEN /\ Did("lv_drop", th, "ok", lvValue, FALSE)
               /\ lvValue' = <<>>
               /\ lvState' = "dropped"
          ELSE /\ Did("lv_drop", th, "panic", <<>>, FALSE)
               /\ lvState' = "leaked"
               /\ UNCHANGED lvValue
    /\ UNCHANGED <<lvCreated, lvOnly, aborted>>
    /\ UNCHANGED nonVlVars

\* OnceValue::new(value) on thread th.
OvNew(th, v) ==
    /\ ovState = "none"
    /\ ovCreated' = th
    /\ ovCell' = <<v>>
    /\ ovState' = "live"
    /\ Did("ov_new", th, "ok", <<>>, FALSE)
    /\ UNCHANGED <<ovReaders, ovWriter, ovTaken, ovOnly, aborted>>
    /\ UNCHANGED nonVlVars

\* once.get() on thread th: deref of the LocalValue (thread check), RefCell
\* borrow (fails under a RefMut), unwrap (fails on None, the Ref is released).
OvGet(th) ==
    /\ ovState = "live"
    /\ IF OnLocal(ovCreated, th) /\ ~ovWriter /\ ovCell # <<>>
          THEN /\ ovReaders < MaxReaders
               /\ Did("ov_get", th, "ok", ovCell, FALSE)
               /\ ovReaders' = ovReaders + 1
          ELSE /\ Did("ov_get", th, "panic", <<>>, FALSE)
               /\ UNCHANGED ovReaders
    /\ UNCHANGED <<ovCreated, ovCell, ovState, ovWriter, ovTaken, ovOnly, aborted>>
    /\ UNCHANGED nonVlVars

\* once.get_mut() on thread th: thread check, borrow_mut (fails under any
\* borrow), unwrap (fails on None, the RefMut is released).
OvGetMut(th) ==
    /\ ovState = "live"
    /\ IF OnLocal(ovCreated, th) /\ ~ovWriter /\ ovReaders = 0 /\ ovCell # <<>>
          THEN /\ Did("ov_get_mut", th, "ok", ovCell, FALSE)
               /\ ovWriter' = TRUE
          ELSE /\ Did("ov_get_mut", th, "panic", <<>>, FALSE)
               /\ UNCHANGED ovWriter
    /\ UNCHANGED <<ovCreated, ovCell, ovState, ovReaders, ovTaken, ovOnly, aborted>>
    /\ UNCHANGED nonVlVars

\* A write through the RefMut handed out by get_mut.
OvWrite(v) ==
    /\ ovState = "live"
    /\ ovWriter
    /\ ovCell # <<v>>
    /\ ovCell' = <<v>>
    /\ Did("ov_write", ovCreated, "ok", <<>>, FALSE)
    /\ UNCHANGED <<ovCreated, ovState, ovReaders, ovWriter, ovTaken, ovOnly, aborted>>
    /\ UNCHANGED nonVlVars

\* A Ref or the RefMut goes out of scope.
OvRelease ==
    /\ ovState = "live"
    /\ ovWriter \/ ovReaders > 0
    /\ IF ovWriter
          THEN ovWriter' = FALSE /\ UNCHANGED ovReaders
          ELSE ovReaders' = ovReaders - 1 /\ UNCHANGED ovWriter
    /\ Did("ov_release", ovCreated, "ok", <<>>, FALSE)
    /\ UNCHANGED <<ovCreated, ovCell, ovState, ovTaken, ovOnly, aborted>>
    /\ UNCHANGED nonVlVars

\* Mutant: take does not look at the borrows that are alive.
OvTakeIgnoresBorrows(th) ==
    /\ ovState = "live"
    /\ IF OnLocal(ovCreated, th)
          THEN LET r == CellTake(ovCell) IN
               /\ ovCell' = r.cell
               /\ IF r.out # <<>>
                     THEN /\ Did("ov_take", th, "ok", r.out, FALSE)
                          /\ ovTaken' = ovTaken \o r.out
                     ELSE /\ Did("ov_take", th, "panic", <<>>, FALSE)
                          /\ UNCHANGED ovTaken
          ELSE /\ Did("ov_take", th, "panic", <<>>, FALSE)
               /\ UNCHANGED <<ovCell, ovTaken>>
    /\ UNCHANGED <<ovCreated, ovState, ovReaders, ovWriter, ovOnly, aborted>>
    /\ UNCHANGED nonVlVars

\* once.take() on thread th: thread check, borrow_mut, Option::take, unwrap.
OvTake(th) ==
    /\ ovState = "live"
    /\ IF OnLocal(ovCreated, th) /\ ~ovWriter /\ ovReaders = 0
          THEN LET r == CellTake(ovCell) IN
               /\ ovCell' = r.cell
               /\ IF r.out # <<>>
                     THEN /\ Did("ov_take", th, "ok", r.out, FALSE)
                          /\ ovTaken' = ovTaken \o r.out
                     ELSE /\ Did("ov_take", th, "panic", <<>>, FALSE)
                          /\ UNCHANGED ovTaken
          ELSE /\ Did("ov_take", th, "panic", <<>>, FALSE)
               /\ UNCHANGED <<ovCell, ovTaken>>
    /\ UNCHANGED <<ovCreated, ovState, ovReaders, ovWriter, ovOnly, aborted>>
    /\ UNCHANGED nonVlVars

\* once.into_inner() on thread th (no borrow can be alive): the LocalValue's
\* into_inner (thread check, abort on the wrong thread as above), then
\* RefCell::into_inner and expect("Once value has already been taken").
OvIntoInner(th) ==
    /\ ovState = "live"
    /\ ~ovWriter /\ ovReaders = 0
    /\ IF OnLocal(ovCreated, th)
          THEN /\ ovState' = "consumed"
               /\ ovCell' = <<>>
               /\ UNCHANGED aborted
               /\ IF ovCell # <<>>
                     THEN /\ Did("ov_into_inner", th, "ok", ovCell, FALSE)
                          /\ ovTaken' = ovTaken \o ovCell
                     ELSE /\ Did("ov_into_inner", th, "panic", <<>>, FALSE)
                          /\ UNCHANGED ovTaken
          ELSE /\ Did("ov_into_inner", th, "abort", <<>>, FALSE)
               /\ aborted' = TRUE
               /\ UNCHANGED <<ovState, ovCell, ovTaken>>
    /\ UNCHANGED <<ovCreated, ovReaders, ovWriter, ovOnly>>
    /\ UNCHANGED nonVlVars

ValueNext ==
    \/ \E th \in Threads, v \in Values : LvNew(th, v)
    \/ \E th \in Threads : LvOnLocal(th)
    \/ \E th \in Threads : LvDeref(th)
    \/ \E th \in Threads, v \in Values : LvDerefMut(th, v)
    \/ \E th \in Threads : LvIntoInner(th)
    \/ \E th \in Threads : LvDrop(th)
    \/ \E th \in Threads, v \in Values : OvNew(th, v)
    \/ \E th \in Threads : OvGet(th)
    \/ \E th \in Threads : OvGetMut(th)
    \/ \E v \in Values : OvWrite(v)
    \/ OvRelease
    \/ \E th \in Threads : OvTake(th)
    \/ \E th \in Threads : OvIntoInner(th)

\* --------------------------------------------------------------- backends

\* Jobs handed to the backend over the run.
MaxSubmits == 2
\* The backend's clock stops here.
MaxBeTime == 1

Backends == {"apple", "android", "windows", "polyfill", "web"}
\* The serial contexts: Apple's main queue, Android's three ExecutorQueues,
\* the polyfill's main executor, the browser's event loop.
BeCtx == {"main", "default", "background"}
\* One priority per Android queue.
BePriorities == {"Default", "Background", "UserInteractive"}
BeDelays == {0, 1}
\* Clock units per millisecond: one unit is half a millisecond.
BeUnitsPerMs == 2

\* WebExecutor::exec_after: the timeout handed to setTimeout is
\* delay.as_millis() as u32, whole milliseconds (the delays drawn here are far
\* below 2^32 ms, where the cast keeps the value), here in clock units.
WebTimeout(d) == (d \div BeUnitsPerMs) * BeUnitsPerMs

\* The time the backend waits before it releases a job given with delay d.
BeTimeout(d) == IF beBackend = "web" THEN WebTimeout(d) ELSE d

\* Calls of polyfill::start_main_executor over the run.
MaxStartCalls == 2
\* num_cpus::get().max(1): the worker threads global() is to start.
PolyfillThreads == 1

\* Mutant: a second OnceLock::set succeeds.
OnceLockSetAlwaysOk(cell) == [cell |-> TRUE, ok |-> TRUE]

\* OnceLock::set on MAIN_EXECUTOR (cell: it is set): Ok the first time, Err
\* afterwards, leaving the cell as it is.
OnceLockSet(cell) == [cell |-> TRUE, ok |-> ~cell]

\* polyfill::global(): EXECUTOR.get_or_init(..) whose initialiser calls
\* global() again for each worker thread, while the cell is being initialised
\* by this very thread: a re-entrant initialisation, which deadlocks or panics
\* (either way the call does not return and the cell stays unset).
Global == IF PolyfillThreads >= 1 THEN "reentrant" ELSE "ready"

\* The pointer a submission gives its native work or timer object as callback
\* context (0: null). Windows exec passes Box::into_raw(context); Windows
\* exec_after passes ptr::null_mut() and only afterwards boxes the context.
ContextPtr(via, j) ==
    IF beBackend = "windows" /\ via = "exec_after" THEN 0 ELSE j

\* What a native callback called with a null context does: Box::from_raw(null)
\* is undefined; the call reads through address 0 and the process dies, or it
\* goes on without ever reaching the job.
NullContextOutcomes == {"lost", "crash"}

BackendInit ==
    /\ beBackend = "none"
    /\ beJobs = <<>>
    /\ beQ = [c \in BeCtx |-> <<>>]
    /\ bePool = {}
    /\ beSleep = {}
    /\ beRun = {}
    /\ beStarts = <<>>
    /\ beLost = {}
    /\ beAlive = [c \in BeCtx |-> TRUE]
    /\ beMainStarted = FALSE
    /\ beFault = {}
    /\ beNow = 0
    /\ beStartLog = <<>>
    /\ bePanicked = {}

\* AndroidRuntime::queue_for_priority.
AndroidQueueFor(p) ==
    CASE p \in {"Background", "Utility"} -> "background"
      [] p = "UserInteractive" -> "main"
      [] OTHER -> "default"

\* ExecutorQueue::dispatch: send to the worker's channel; when the send fails
\* (the worker and its receiver are gone) the job is run by the caller.
AndroidDispatch(ctx) ==
    IF beAlive[ctx] THEN [kind |-> "queue", ctx |-> ctx]
                    ELSE [kind |-> "inline", ctx |-> ctx]

\* Where a call of exec_main / exec / exec_after puts its job, per backend.
\* native: the native work or timer object could be created (Windows).
Route(via, p, d, native) ==
    CASE beBackend = "apple" ->
            IF via = "exec_main" THEN [kind |-> "queue", ctx |-> "main"]
            ELSE IF via = "exec" THEN [kind |-> "pool", ctx |-> "pool"]
            ELSE [kind |-> "sleep", ctx |-> "pool"]
      [] beBackend = "android" ->
            LET ctx == IF via = "exec_main" THEN "main" ELSE AndroidQueueFor(p) IN
            IF via = "exec_after" /\ d # 0
               THEN [kind |-> "sleep", ctx |-> ctx]
               ELSE AndroidDispatch(ctx)
      [] beBackend = "windows" ->
            IF ~native THEN [kind |-> "lost", ctx |-> "pool"]
            ELSE IF via = "exec_after" THEN [kind |-> "sleep", ctx |-> "pool"]
            ELSE [kind |-> "pool", ctx |-> "pool"]
      [] beBackend = "polyfill" ->
            IF via = "exec_main"
               THEN IF beMainStarted THEN [kind |-> "queue", ctx |-> "main"]
                                     ELSE [kind |-> "fault", ctx |-> "main"]
               ELSE IF Global = "reentrant" THEN [kind |-> "fault", ctx |-> "pool"]
               ELSE [kind |-> "pool", ctx |-> "pool"]
      [] OTHER ->
            IF via = "exec_after" THEN [kind |-> "sleep", ctx |-> "main"]
                                  ELSE [kind |-> "queue", ctx |-> "main"]

\* The job j is placed as r says.
Place(j, r) ==
    /\ beQ' = IF r.kind = "queue" THEN [beQ EXCEPT ![r.ctx] = Append(@, j)] ELSE beQ
    /\ bePool' = IF r.kind = "pool" THEN bePool \cup {j} ELSE bePool
    /\ beSleep' = IF r.kind = "sleep" THEN beSleep \cup {j} ELSE beSleep
    /\ beRun' = IF r.kind = "inline" THEN beRun \cup {[job |-> j, on |-> "caller"]}
                                     ELSE beRun
    /\ beStarts' = IF r.kind = "inline"
                      THEN Append(beStarts, [job |-> j, on |-> "caller", at |-> beNow])
                                        ELSE beStarts
    /\ beLost' = IF r.kind \in {"lost", "fault"} THEN beLost \cup {j} ELSE beLost
    /\ beFault' = IF r.kind = "fault" THEN beFault \cup {j} ELSE beFault

\* The program runs on backend b.
Boot(b) ==
    /\ beBackend = "none"
    /\ beBackend' = b
    /\ UNCHANGED <<beJobs, beQ, bePool, beSleep, beRun, beStarts, beLost, beAlive,
                   beMainStarted, beFault, beNow>>
    /\ UNCHANGED <<beStartLog, bePanicked>>
    /\ UNCHANGED nonBeVars

\* polyfill::start_main_executor: MAIN_EXECUTOR.set(..).expect(..), then the
\* loop that runs the executor for ever; a call that finds the cell set panics.
StartMainExecutor ==
    /\ beBackend = "polyfill"
    /\ Len(beStartLog) < MaxStartCalls
    /\ LET r == OnceLockSet(beMainStarted) IN
       /\ beMainStarted' = r.cell
       /\ beStartLog' = Append(beStartLog, IF r.ok THEN "runs" ELSE "panic")
    /\ UNCHANGED <<beBackend, beJobs, beQ, bePool, beSleep, beRun, beStarts, beLost,
                   beAlive, beFault, beNow, bePanicked>>
    /\ UNCHANGED nonBeVars

\* A call of exec_main(f), exec(f, p) or exec_after(d, f, p).
BeSubmit(via, p, d, native) ==
    /\ beBackend # "none"
    /\ Len(beJobs) < MaxSubmits
    /\ native \/ beBackend = "windows"
    /\ beJobs' = Append(beJobs, [via |-> via, priority |-> p, delay |-> d, at |-> beNow,
                                 due |-> beNow + BeTimeout(d),
                                 ptr |-> ContextPtr(via, Len(beJobs) + 1)])
    /\ Place(Len(beJobs) + 1, Route(via, p, d, native))
    /\ UNCHANGED <<beBackend, beAlive, beMainStarted, beNow>>
    /\ UNCHANGED <<beStartLog, bePanicked>>
    /\ UNCHANGED nonBeVars

BeExecMain(native) == BeSubmit("exec_main", "Default", 0, native)
BeExec(p, native) == BeSubmit("exec", p, 0, native)
BeExecAfter(d, p, native) == BeSubmit("exec_after", p, d, native)

\* The delay of job j has run out. Android: the sleeper thread dispatches.
\* Windows: the timer calls timer_callback with the context it was created
\* with; a null context never leads to the job (o: what the call does).
BeElapse(j, o) ==
    /\ j \in beSleep
    /\ beNow >= beJobs[j].due
    /\ o = "lost" \/ (beBackend = "windows" /\ beJobs[j].ptr = 0)
    /\ LET job == beJobs[j]
           r == CASE beBackend = "android" ->
                       AndroidDispatch(AndroidQueueFor(job.priority))
                  [] beBackend = "windows" ->
                       IF job.ptr = 0 THEN [kind |-> "fault", ctx |-> "pool"]
                                      ELSE [kind |-> "pool", ctx |-> "pool"]
                  [] beBackend = "web" -> [kind |-> "queue", ctx |-> "main"]
                  [] OTHER -> [kind |-> "pool", ctx |-> "pool"]
           dead == IF o = "crash" THEN bePool \cup beSleep ELSE {}
       IN  /\ beQ' = IF r.kind = "queue" THEN [beQ EXCEPT ![r.ctx] = Append(@, j)] ELSE beQ
           /\ bePool' = IF r.kind = "pool" THEN bePool \cup {j} ELSE bePool \ dead
           /\ beRun' = IF r.kind = "inline"
                          THEN beRun \cup {[job |-> j, on |-> "sleeper"]}
                          ELSE IF o = "crash" THEN {} ELSE beRun
           /\ beStarts' = IF r.kind = "inline"
                             THEN Append(beStarts, [job |-> j, on |-> "sleeper", at |-> beNow])
                             ELSE beStarts
           /\ beLost' = IF r.kind = "fault" THEN beLost \cup {j} \cup dead ELSE beLost
           /\ beFault' = IF r.kind = "fault" THEN beFault \cup {j} ELSE beFault
           /\ beSleep' = (beSleep \ {j}) \ dead
    /\ UNCHANGED <<beBackend, beJobs, beAlive, beMainStarted, beNow>>
    /\ UNCHANGED <<beStartLog, bePanicked>>
    /\ UNCHANGED nonBeVars

\* The worker of serial context c takes the next job of its FIFO and invokes it.
BeStartQueued(c) ==
    /\ beQ[c] # <<>>
    /\ beAlive[c]
    /\ \A r \in beRun : r.on # c
    /\ beRun' = beRun \cup {[job |-> Head(beQ[c]), on |-> c]}
    /\ beStarts' = Append(beStarts, [job |-> Head(beQ[c]), on |-> c, at |-> beNow])
    /\ beQ' = [beQ EXCEPT ![c] = Tail(@)]
    /\ UNCHANGED <<beBackend, beJobs, bePool, beSleep, beLost, beAlive, beMainStarted,
                   beFault, beNow>>
    /\ UNCHANGED <<beStartLog, bePanicked>>
    /\ UNCHANGED nonBeVars

\* A pool thread invokes a job of the pool.
BeStartPool(j) ==
    /\ j \in bePool
    /\ bePool' = bePool \ {j}
    /\ beRun' = beRun \cup {[job |-> j, on |-> "pool"]}
    /\ beStarts' = Append(beStarts, [job |-> j, on |-> "pool", at |-> beNow])
    /\ UNCHANGED <<beBackend, beJobs, beQ, beSleep, beLost, beAlive, beMainStarted,
                   beFault, beNow>>
    /\ UNCHANGED <<beStartLog, bePanicked>>
    /\ UNCHANGED nonBeVars

\* The invocation r returns.
BeFinish(r) ==
    /\ r \in beRun
    /\ beRun' = beRun \ {r}
    /\ UNCHANGED <<beBackend, beJobs, beQ, bePool, beSleep, beStarts, beLost, beAlive,
                   beMainStarted, beFault, beNow>>
    /\ UNCHANGED <<beStartLog, bePanicked>>
    /\ UNCHANGED nonBeVars

\* The invocation r panics on an Android worker: the worker thread unwinds,
\* its receiver is dropped and with it the jobs still in the channel.
BePanic(r) ==
    /\ r \in beRun
    /\ beBackend = "android"
    /\ r.on \in BeCtx
    /\ beRun' = beRun \ {r}
    /\ beAlive' = [beAlive EXCEPT ![r.on] = FALSE]
    /\ beLost' = beLost \cup {beQ[r.on][i] : i \in 1..Len(beQ[r.on])}
    /\ beQ' = [beQ EXCEPT ![r.on] = <<>>]
    /\ bePanicked' = bePanicked \cup {r.job}
    /\ UNCHANGED <<beBackend, beJobs, bePool, beSleep, beStarts, beMainStarted,
                   beFault, beNow, beStartLog>>
    /\ UNCHANGED nonBeVars

\* The invocation r panics in the polyfill's main executor: catch_unwind in
\* the loop of start_main_executor takes the panic and the loop runs on.
BePanicCaught(r) ==
    /\ r \in beRun
    /\ beBackend = "polyfill"
    /\ r.on = "main"
    /\ beRun' = beRun \ {r}
    /\ bePanicked' = bePanicked \cup {r.job}
    /\ UNCHANGED <<beBackend, beJobs, beQ, bePool, beSleep, beStarts, beLost, beAlive,
                   beMainStarted, beFault, beNow, beStartLog>>
    /\ UNCHANGED nonBeVars

BeTick ==
    /\ beBackend # "none"
    /\ beNow < MaxBeTime
    /\ beNow' = beNow + 1
    /\ UNCHANGED <<beBackend, beJobs, beQ, bePool, beSleep, beRun, beStarts, beLost,
                   beAlive, beMainStarted, beFault>>
    /\ UNCHANGED <<beStartLog, bePanicked>>
    /\ UNCHANGED nonBeVars

BackendNext ==
    \/ \E b \in Backends : Boot(b)
    \/ StartMainExecutor
    \/ \E native \in BOOLEAN : BeExecMain(native)
    \/ \E p \in BePriorities, native \in BOOLEAN : BeExec(p, native)
    \/ \E d \in BeDelays, p \in BePriorities, native \in BOOLEAN : BeExecAfter(d, p, native)
    \/ \E j \in beSleep, o \in NullContextOutcomes : BeElapse(j, o)
    \/ \E c \in BeCtx : BeStartQueued(c)
    \/ \E j \in bePool : BeStartPool(j)
    \/ \E r \in beRun : BeFinish(r)
    \/ \E r \in beRun : BePanic(r)
    \/ \E r \in beRun : BePanicCaught(r)
    \/ BeTick

\* ------------------------------------------- a task that awaits a Timer

\* The waker of the spawned task.
SlWaker == 1

SleepInit ==
    /\ slSt = NoState
    /\ slJobs = 0

\* spawn_with_priority(async { Timer::after(d).await }, p): async_task::spawn,
\* then runnable.schedule() hands the first resumption to exec.
SlSpawn(d) ==
    /\ slSt = NoState
    /\ tmCtor = <<>>
    /\ slSt' = NewState
    /\ slJobs' = 1
    /\ tmCtor' = <<[via |-> "after", arg |-> d]>>
    /\ tmDuration' = <<d>>
    /\ UNCHANGED <<now, tmFinished, tmPos, tmPollLog, tmRegLog, tmDelayed, tmWoken,
                   tmPollWakers>>
    /\ UNCHANGED nonSlVars

\* The backend runs a resumption: runnable.run() polls the future, which polls
\* the Timer. A poll that finds the flag set returns Ready and the task
\* completes; otherwise the poll is under way.
SlRunBegin ==
    /\ slJobs > 0
    /\ ~slSt.running
    /\ slJobs' = slJobs - 1
    /\ LET r == RunStart(slSt) IN
       IF r.poll
          THEN /\ PollLoadRegister(SlWaker, PriorityDefault)
               /\ slSt' = IF TimerPoll(tmFinished, tmDuration).res = "ready"
                              THEN RunReady(r.st).st
                              ELSE r.st
          ELSE /\ slSt' = r.st
               /\ UNCHANGED tmVars
    /\ UNCHANGED nonSlVars

\* The poll returns Pending to runnable.run(): a task woken meanwhile is handed
\* to the backend again.
SlRunPending ==
    /\ slSt.running
    /\ PollPending
    /\ LET r == RunPending(slSt) IN
       /\ slSt' = r.st
       /\ slJobs' = IF r.submit THEN slJobs + 1 ELSE slJobs
    /\ UNCHANGED nonSlVars

\* The delayed callback's waker.wake() on the task's waker.
SlCallbackWake(j) ==
    /\ slSt # NoState
    /\ WakerWake(j)
    /\ LET w == WakeStep(slSt) IN
       /\ slSt' = w.st
       /\ slJobs' = IF w.submit THEN slJobs + 1 ELSE slJobs
    /\ UNCHANGED nonSlVars

SleepNext ==
    \/ \E d \in Durations : SlSpawn(d)
    \/ SlRunBegin
    \/ SlRunPending
    \/ Tick
    \/ \E j \in tmDelayed : CallbackStore(j)
    \/ \E j \in tmDelayed : SlCallbackWake(j)

\* ------------------------------------- the web backend's setTimeout value

\* Seconds and nanoseconds of the Durations handed to exec_after: around zero,
\* around 2^32 ms (4294967 s 296 ms) and around 2^33 ms (8589934 s 592 ms).
WebSecs == {0, 1, 2, 4294966, 4294967, 4294968, 8589934, 8589935}
WebNanos == {0, 1, 499999, 999999, 1000000, 1500000, 295000000, 296000000,
             296000001, 592000000, 999999999}

NanosPerMilli == 1000000
MillisPerSec == 1000
\* Numbers of 2^31 and more are kept in 16-bit parts.
TwoTo16 == 65536

WebInit ==
    /\ wbDelay = <<>>
    /\ wbTimeout = <<>>

\* Duration::as_millis: secs * 1000 + nanos / 1_000_000 as a u128, here as
\* top * 2^32 + high * 2^16 + low.
AsMillis(d) ==
    LET lowSum == (d.secs % TwoTo16) * MillisPerSec + d.nanos \div NanosPerMilli
        highSum == (d.secs \div TwoTo16) * MillisPerSec + lowSum \div TwoTo16
    IN  [top |-> highSum \div TwoTo16, high |-> highSum % TwoTo16, low |-> lowSum % TwoTo16]

\* `as u32` on a u128: the low 32 bits.
AsU32(m) == [high |-> m.high, low |-> m.low]

\* WebExecutor::exec_after(delay, f, _) is called.
WebExecAfter(secs, nanos) ==
    /\ wbDelay' = <<[secs |-> secs, nanos |-> nanos]>>
    /\ wbTimeout' = <<>>
    /\ UNCHANGED nonWbVars

\* set_timeout(&closure, delay.as_millis() as u32).
WebSetTimeout ==
    /\ wbDelay # <<>>
    /\ wbTimeout = <<>>
    /\ wbTimeout' = <<AsU32(AsMillis(wbDelay[1]))>>
    /\ UNCHANGED wbDelay
    /\ UNCHANGED nonWbVars

WebNext ==
    \/ \E secs \in WebSecs, nanos \in WebNanos : WebExecAfter(secs, nanos)
    \/ WebSetTimeout

\* --------------------------------------------------------- specifications

Init ==
    /\ TaskInit /\ MbInit /\ TimerInit /\ ValueInit /\ BackendInit /\ SleepInit
    /\ WebInit

Next == TaskNext

Spec == Init /\ [][Next]_vars

MailboxSpec == Init /\ [][MbNext]_vars

TimerSpec == Init /\ [][TimerNext]_vars

ValueSpec == Init /\ [][ValueNext]_vars

BackendSpec == Init /\ [][BackendNext]_vars

SleepSpec == Init /\ [][SleepNext]_vars

WebSpec == Init /\ [][WebNext]_vars

\* Fairness for the awaiting task: the backend runs every resumption handed to
\* it, a poll returns, time passes, and a delayed callback runs once due.
SleepFairSpec ==
    /\ Init /\ [][SleepNext]_vars
    /\ WF_vars(SlRunBegin)
    /\ WF_vars(SlRunPending)
    /\ WF_vars(Tick)
    /\ WF_vars(\E j \in tmDelayed : CallbackStore(j))
    /\ WF_vars(\E j \in tmDelayed : SlCallbackWake(j))

\* Fairness for the mailbox: the main context runs submitted resumptions, the
\* loop's steps complete, and a suspended caller is resumed when its response
\* channel has something to report.
MailboxFairSpec ==
    /\ Init /\ [][MbNext]_vars
    /\ WF_vars(\E d \in HandleDrop : MailboxNew(d))
    /\ WF_vars(MbRunBegin)
    /\ WF_vars(MbRecv)
    /\ WF_vars(\E j \in mbActive : MbApply(j))
    /\ WF_vars(MbRecvPending)
    /\ WF_vars(MbRecvClosed)
    /\ \A p \in Producers : WF_vars(CallReturn(p))
    /\ \A p \in Producers : WF_vars(CallPanic(p))

\* Fairness: the backend eventually runs every job submitted to it, a poll of
\* the computation returns, whatever the computation awaits eventually wakes
\* it, and the owner awaiting the handle polls it when notified.
AwaitPoll(t) == HandlePoll(t) /\ ~st[t].closed

FairSpec ==
    /\ Init /\ [][Next]_vars
    /\ WF_vars(RunMain)
    /\ \A q \in QueuePriority : WF_vars(RunGlobal(q))
    /\ \A t \in Tasks, c \in Contexts :
          WF_vars(EndRunPending(t, c) \/ EndRunReady(t, c))
    /\ \A t \in Tasks : WF_vars(Wake(t))
    /\ \A t \in Tasks : WF_vars(AwaitPoll(t))

\* ---------------------------------------------------------------- claims

\* Submissions of task t that were not run yet, over all queues.
CountIn(s, t) == Cardinality({i \in 1..Len(s) : s[i] = t})

RECURSIVE SumOver(_, _)
SumOver(f, S) ==
    IF S = {} THEN 0
    ELSE LET x == CHOOSE y \in S : TRUE IN f[x] + SumOver(f, S \ {x})

Outstanding(t) ==
    CountIn(mainQ, t) + SumOver([q \in QueuePriority |-> CountIn(globalQ[q], t)], QueuePriority)

Running(t) == runs[t]["main"] + runs[t]["worker"]

\* C1: polling (awaiting) the handle of a task created by any of the five
\* spawn functions delivers the output at most once, only after the computation
\* returned, and the value delivered is the value the computation returned.
C1_OutputDeliveredOnce ==
    \A t \in Tasks :
        /\ Len(delivered[t]) <= 1
        /\ \A i \in 1..Len(delivered[t]) :
              /\ produced[t]
              /\ delivered[t][i] \in Values
              /\ <<delivered[t][i]>> = output[t]

\* C1 witness: spawn(async { 42 }) was awaited and yielded 42.
C1_Witness ==
    \E t \in Tasks : kind[t] = "spawn" /\ delivered[t] = <<42>>

\* C2: under FairSpec, every spawned task whose handle stays awaited (it is
\* neither cancelled nor detached) eventually has its output delivered.
C2_EventuallyCompletes ==
    \A t \in Tasks :
        [](kind[t] # None => <>(Len(delivered[t]) = 1 \/ handle[t] # "held"))

\* C2 witness: a Background task that suspended MaxSuspend times was delivered.
C2_Witness ==
    \E t \in Tasks :
        /\ kind[t] = "spawn_with_priority" /\ prio[t] = "Background"
        /\ fut[t].suspended = MaxSuspend
        /\ Len(delivered[t]) = 1 /\ handle[t] = "held"

\* C3: once cancel() has closed a task, no step submits another resumption of
\* it, no step starts another poll of its computation, and its output is
\* delivered neither to a poll of the handle nor to the caller of cancel.
C3_CancelStopsResumption ==
    [][\A t \in Tasks :
          cancelEffect[t] =>
             /\ subLog'[t] = subLog[t]
             /\ \A c \in Contexts : runs'[t][c] <= runs[t][c]
             /\ delivered'[t] = <<>>
             /\ cancelRet'[t] = <<>>]_vars

\* C3 witness: the resumption in flight when cancel() closed the task produced
\* the output, which was dropped, and cancel() returned.
C3_Witness ==
    \E t \in Tasks :
        /\ cancelEffect[t] /\ produced[t] /\ handle[t] = "cancelled"
        /\ drops[t] = 1 /\ delivered[t] = <<>>

\* C4: cancel() never panics, the output has at most one fate (delivered to a
\* poll, returned by Task::cancel, or dropped once), and an output produced by
\* the resumption that raced with cancel() is dropped exactly once.
C4_CancelNeverPanics ==
    \A t \in Tasks :
        /\ panicked[t] # "cancel"
        /\ handle[t] \in {"cancelling", "cancelled"} => panicked[t] = None
        /\ drops[t] + Len(delivered[t]) + Len(cancelRet[t]) <= 1
        /\ (cancelEffect[t] /\ produced[t]) =>
              drops[t] = 1 /\ delivered[t] = <<>> /\ cancelRet[t] = <<>>

\* C4 witness: LocalTask::cancel on a task whose computation had already
\* completed returned, having dropped the output once.
C4_Witness ==
    \E t \in Tasks :
        /\ kind[t] = "on_main" /\ handle[t] = "cancelled"
        /\ produced[t] /\ ~cancelEffect[t] /\ drops[t] = 1

\* C5: every submission of a task created by spawn_main, spawn_local or
\* LocalTask::on_main goes through exec_main, none sits in a global queue, and
\* every resumption starts on the main context.
C5_LocalTasksOnMain ==
    \A t \in Tasks :
        kind[t] \in MainKinds =>
            /\ \A i \in 1..Len(subLog[t]) : subLog[t][i].via = "exec_main"
            /\ \A q \in QueuePriority : CountIn(globalQ[q], t) = 0
            /\ ranOn[t] \subseteq {"main"}

\* C5 witness: a LocalTask::on_main task was resumed after a suspension, both
\* resumptions through exec_main, on the main context.
C5_Witness ==
    \E t \in Tasks :
        /\ kind[t] = "on_main" /\ Len(subLog[t]) >= 2
        /\ fut[t].suspended >= 1 /\ produced[t] /\ ranOn[t] = {"main"}

\* C6: every submission of a task created by spawn_with_priority(_, P) is an
\* exec with priority P, into the global queue of P's native level, and every
\* submission of a task created by spawn is an exec with Priority::Default.
C6_PriorityFixedAtSpawn ==
    \A t \in Tasks :
        LET P == IF kind[t] = "spawn" THEN PriorityDefault ELSE prio[t] IN
        kind[t] \in {"spawn", "spawn_with_priority"} =>
            /\ \A i \in 1..Len(subLog[t]) :
                  subLog[t][i] = [via |-> "exec", priority |-> P]
            /\ CountIn(mainQ, t) = 0
            /\ \A q \in QueuePriority :
                  CountIn(globalQ[q], t) > 0 => q = QueuePriorityOf(P)

\* C6 witness: a task spawned with Utility was submitted again after a
\* suspension.
C6_Witness ==
    \E t \in Tasks :
        /\ kind[t] = "spawn_with_priority" /\ prio[t] = "Utility"
        /\ fut[t].suspended >= 1 /\ Len(subLog[t]) >= 2

\* C7: for every task, submissions not yet run plus resumptions in progress
\* never exceed one, and the task is submitted at most once per suspension
\* (plus the first submission, plus the one cancel() makes to drop the future).
C7_SingleSubmission ==
    \A t \in Tasks :
        /\ Outstanding(t) + Running(t) <= 1
        /\ Len(subLog[t]) <=
              fut[t].suspended + 1 + (IF cancelEffect[t] THEN 1 ELSE 0)

\* C7 witness: the task was woken while it is running; nothing is submitted.
C7_Witness ==
    \E t \in Tasks :
        /\ st[t].running /\ st[t].scheduled
        /\ Running(t) = 1 /\ Outstanding(t) = 0

\* The value after the first n jobs of the channel's order were applied, one
\* after the other, to the empty map.
RECURSIVE ValueAfter(_)
ValueAfter(n) ==
    IF n = 0 THEN EmptyMap ELSE ApplyJob(ValueAfter(n - 1), mbJobs[n])

\* C8: jobs are applied in exactly the order in which they entered the channel
\* (job i of that order is the i-th applied, the job in progress is the next
\* one, the channel holds the rest in order); hence two jobs of one producer
\* are applied in that producer's submission order.
C8_MailboxFIFO ==
    /\ \A i \in 1..Len(mbApplied) : mbApplied[i] = i
    /\ \A j \in mbActive : j = Len(mbApplied) + 1
    /\ \A i \in 1..Len(mbQueue) :
          mbQueue[i] = Len(mbApplied) + Cardinality(mbActive) + i
    /\ \A i, j \in 1..Len(mbApplied) :
          (i < j /\ mbJobs[mbApplied[i]].producer = mbJobs[mbApplied[j]].producer)
              => mbApplied[i] < mbApplied[j]

\* C8 witness: three jobs enqueued alternately by two producers were applied.
C8_Witness ==
    /\ Len(mbApplied) = 3
    /\ mbJobs[1].producer = 1 /\ mbJobs[2].producer = 2 /\ mbJobs[3].producer = 1

\* C9: at most one job of the mailbox is in application at any time, at most
\* one resumption of the background task is in progress, and the value changes
\* only in a step in which that running task finishes applying a job.
C9_ValueOwnedByLoop ==
    [][/\ Cardinality(mbActive') <= 1
       /\ mbRuns' <= 1
       /\ (mbActive' # {} => mbRuns' = 1)
       /\ (mbValue' # mbValue =>
              /\ mbRuns = 1
              /\ \E j \in mbActive :
                    /\ mbApplied' = Append(mbApplied, j)
                    /\ mbValue' = ApplyJob(mbValue, mbJobs[j]))]_vars

\* C9 witness: a job is being applied while another producer's job waits in
\* the channel and a caller is suspended in call.
C9_Witness ==
    /\ mbActive # {}
    /\ mbQueue # <<>>
    /\ \E p \in Producers : mbWait[p] # <<>>
    /\ \E i, j \in 1..Len(mbJobs) : mbJobs[i].producer # mbJobs[j].producer

\* C10: every value a call returned is f applied to the value as it stood
\* after exactly the jobs enqueued before the call's job; a call returns once.
C10_CallRoundTrip ==
    /\ \A i \in 1..Len(mbResults) :
          LET r == mbResults[i] IN
          /\ mbJobs[r.job].op = "call"
          /\ r.val = CallResult(ValueAfter(r.job - 1), mbJobs[r.job])
          /\ \A j \in 1..Len(mbResults) : mbResults[j].job = r.job => j = i
    /\ \A p \in Producers : Len(mbResp[p]) <= 1

\* C10 witness: handle inserted ("k", 1), the same producer's call read "k" and
\* returned 1, although another producer's insert of 2 was enqueued after the
\* call and has been applied since.
C10_Witness ==
    /\ Len(mbJobs) = 3
    /\ mbJobs[1] = [producer |-> 1, op |-> "handle", key |-> "k", val |-> 1]
    /\ mbJobs[2].producer = 1 /\ mbJobs[2].op = "call"
    /\ mbJobs[3] = [producer |-> 2, op |-> "handle", key |-> "k", val |-> 2]
    /\ mbResults = <<[job |-> 2, val |-> 1]>>
    /\ mbValue["k"] = 2

\* The background task was cancelled (closed without having finished).
MbCancelled == mbSt.closed /\ ~mbSt.completed

\* C11: a step of handle (or of call's enqueue) is one non-blocking try_send:
\* on a live receiver the job goes to the tail of the queue; when the background
\* task is gone the job is dropped, queue and value stay as they were, nothing
\* is reported and the caller of handle is not suspended; a dropped job is never
\* run. handle is possible whenever its caller holds the Mailbox.
C11_HandleNeverBlocksOrFails ==
    /\ [][mbJobs' # mbJobs =>
            LET id == Len(mbJobs') IN
            /\ Len(mbJobs') = Len(mbJobs) + 1
            /\ IF mbReceiver
                  THEN mbQueue' = Append(mbQueue, id) /\ mbDropped' = mbDropped
                  ELSE mbQueue' = mbQueue /\ mbDropped' = mbDropped \cup {id}
            /\ mbValue' = mbValue /\ mbApplied' = mbApplied /\ mbActive' = mbActive
            /\ mbCallPanicked' = mbCallPanicked
            /\ (mbJobs'[id].op = "handle" => mbWait' = mbWait)]_vars
    /\ [](\A j \in mbDropped :
             j \notin Range(mbApplied) /\ j \notin mbActive /\ j \notin Range(mbQueue))
    /\ [](\A p \in Producers :
             (mbSender /\ mbWait[p] = <<>> /\ ~mbCallPanicked[p] /\ Len(mbJobs) < MaxJobs)
                 => ENABLED Handle(p, "k", 1))

\* C11 witness: a handle job was dropped because the background task was gone,
\* while an earlier job is still in the queue and the value is untouched.
C11_Witness ==
    /\ mbSender /\ ~mbReceiver
    /\ mbQueue # <<>>
    /\ \E j \in mbDropped : mbJobs[j].op = "handle"
    /\ mbValue = EmptyMap
    /\ \A p \in Producers : ~mbCallPanicked[p]

\* C12: a call suspended on a closed and empty response channel can only panic
\* and returns nothing; a call whose job was dropped at enqueue time never
\* returns a value and eventually panics; a call panics in no other case.
C12_CallFailsWhenResponseClosed ==
    /\ [][\A p \in Producers :
            (mbWait[p] # <<>> /\ mbResp[p] = <<>> /\ mbRespClosed[p]) =>
                /\ mbResults' = mbResults
                /\ (mbWait'[p] # mbWait[p] => mbCallPanicked'[p])]_vars
    /\ [](\A i \in 1..Len(mbResults) : mbResults[i].job \notin mbDropped)
    /\ [](\A p \in Producers : mbCallPanicked[p] =>
             \E j \in mbDropped : mbJobs[j].producer = p /\ mbJobs[j].op = "call")
    /\ \A p \in Producers :
          (mbWait[p] # <<>> /\ mbWait[p][1] \in mbDropped) ~> mbCallPanicked[p]

\* C12 witness: the background task was gone, a call's job was dropped at
\* enqueue time and the call panicked without returning.
C12_Witness ==
    \E p \in Producers :
        /\ mbCallPanicked[p]
        /\ mbWait[p] = <<>>
        /\ mbResults = <<>>
        /\ ~mbReceiver
        /\ \E j \in mbDropped : mbJobs[j].producer = p /\ mbJobs[j].op = "call"

Requested ==
    IF tmCtor[1].via = "after" THEN tmCtor[1].arg ELSE tmCtor[1].arg * UnitsPerSec

\* C14: a poll returns Ready only after the delayed callback has stored the
\* flag, and never earlier than the requested delay after the first poll
\* (after_secs(n) and sleep(n) count n seconds), the backend not running the
\* callback before it is due.
C14_TimerNotEarly ==
    \A i \in 1..Len(tmPollLog) :
        tmPollLog[i].res = "ready" =>
            /\ tmFinished
            /\ \A j \in tmDelayed : j.stage # "waiting"
            /\ i > 1
            /\ tmPollLog[i].at >= tmPollLog[1].at + Requested

\* C14 witness: sleep(1) was first polled at time 1 and a poll at time 3
\* returned Ready.
C14_Witness ==
    /\ tmCtor = <<[via |-> "sleep", arg |-> 1]>>
    /\ Len(tmPollLog) = 2
    /\ tmPollLog[1] = [res |-> "pending", at |-> 1]
    /\ tmPollLog[2] = [res |-> "ready", at |-> 3]

\* C15: a poll that starts when the completion flag is set returns Ready in
\* that same step and changes nothing of the Timer or the backend: no duration
\* is taken, no callback registered, the flag is not written, nothing is woken.
C15_CompletedPollIdempotent ==
    [][(tmFinished /\ tmPos = "idle" /\ (tmPollLog' # tmPollLog \/ tmPos' # tmPos)) =>
          /\ tmPos' = "idle"
          /\ tmPollLog' = Append(tmPollLog, [res |-> "ready", at |-> now])
          /\ UNCHANGED <<tmDuration, tmFinished, tmRegLog, tmDelayed, tmWoken,
                         tmCtor, now>>]_vars

\* C15 witness: two polls in a row returned Ready after completion, with the
\* one registration of the first poll only.
C15_Witness ==
    /\ Len(tmPollLog) = 3
    /\ tmPollLog[2].res = "ready" /\ tmPollLog[3].res = "ready"
    /\ Len(tmRegLog) = 1
    /\ tmDelayed = {}

\* C16: over the polls of one Timer exactly one callback is registered, by the
\* first poll, with the stored duration and at Priority::Default on the default
\* queue whatever the polling task's priority; the first poll returns Pending
\* also for a zero duration, and a poll returns Ready only once finished.
C16_OneRegistration ==
    /\ Len(tmRegLog) <= 1
    /\ tmPollLog # <<>> =>
          /\ Len(tmRegLog) = 1
          /\ tmRegLog[1].poll = 1
          /\ tmRegLog[1].at = tmPollLog[1].at
          /\ tmRegLog[1].delay = Requested
          /\ tmRegLog[1].priority = PriorityDefault
          /\ tmDuration = <<>>
          /\ tmPollLog[1].res # "ready"
    /\ \A j \in tmDelayed : j.queue = QueuePriorityOf(PriorityDefault)
    /\ Cardinality(tmDelayed) <= 1
    /\ \A i \in 1..Len(tmPollLog) : tmPollLog[i].res = "ready" => tmFinished

\* C16 witness: a Timer of zero duration polled three times by a Background
\* task before the callback ran: three Pending, one registration at Default.
C16_Witness ==
    /\ tmCtor = <<[via |-> "after", arg |-> 0]>>
    /\ Len(tmPollLog) = 3
    /\ \A i \in 1..3 : tmPollLog[i].res = "pending"
    /\ Len(tmRegLog) = 1
    /\ tmRegLog[1].poller = "Background"
    /\ ~tmFinished

\* C17: on the creating thread deref, deref_mut, into_inner and drop succeed
\* on exactly the stored value (into_inner and drop take it out of the wrapper);
\* on any other thread each of them panics or aborts, hands out nothing and
\* leaves the stored value in place; on_local only reports the comparison.
C17_LocalValueAffinity ==
    /\ [](lvState = "live" => lvValue # <<>>)
    /\ [][(vOps' # vOps /\ vLast'.op \in {"lv_on_local", "lv_deref", "lv_deref_mut",
                                         "lv_into_inner", "lv_drop"}) =>
            LET o == vLast' IN
            IF o.op = "lv_on_local"
               THEN /\ o.res = "ok"
                    /\ o.flag = (o.thread = lvCreated)
                    /\ UNCHANGED <<lvValue, lvState, aborted>>
               ELSE IF o.thread = lvCreated
                       THEN /\ o.res = "ok"
                            /\ o.val = lvValue
                            /\ o.op = "lv_deref" => UNCHANGED <<lvValue, lvState>>
                            /\ o.op \in {"lv_into_inner", "lv_drop"} => lvValue' = <<>>
                            /\ ~aborted'
                       ELSE /\ o.res \in {"panic", "abort"}
                            /\ o.val = <<>>
                            /\ lvValue' = lvValue
                            /\ lvState' \in {"live", "leaked"}]_vars

\* C17 witness: a LocalValue created on thread 1 was dropped on thread 2: the
\* drop panicked and the value was not released.
C17_Witness ==
    /\ lvCreated = 1
    /\ vLast.op = "lv_drop" /\ vLast.thread = 2 /\ vLast.res = "panic"
    /\ lvState = "leaked"
    /\ lvValue # <<>>

\* C18: the cell of a OnceValue goes from occupied to empty only: a take on the
\* occupied, unborrowed cell by the creating thread returns its content and
\* empties it; on an empty cell take, get, get_mut and into_inner fail, hand
\* out nothing and leave the cell empty; the value is handed out at most once.
C18_OnceValueSingleTake ==
    /\ [](Len(ovTaken) <= 1)
    /\ [](ovState = "consumed" => ovCell = <<>>)
    /\ [][(ovState = "live" /\ ovCell = <<>>) =>
            /\ ovCell' = <<>>
            /\ ovTaken' = ovTaken
            /\ (vOps' # vOps /\ vLast'.op \in {"ov_take", "ov_get", "ov_get_mut",
                                               "ov_into_inner"}) =>
                  /\ vLast'.res \in {"panic", "abort"}
                  /\ vLast'.val = <<>>
                  /\ UNCHANGED <<ovReaders, ovWriter>>]_vars
    /\ [][(vOps' # vOps /\ vLast'.op = "ov_take") =>
            IF vLast'.thread = ovCreated /\ ovCell # <<>> /\ ~ovWriter /\ ovReaders = 0
               THEN /\ vLast'.res = "ok"
                    /\ vLast'.val = ovCell
                    /\ ovCell' = <<>>
                    /\ ovTaken = <<>>
               ELSE vLast'.res = "panic" /\ ovTaken' = ovTaken]_vars

\* C18 witness: the first take returned 42, the second take by the same
\* thread failed and the cell is still empty.
C18_Witness ==
    /\ ovTaken = <<42>>
    /\ vLast.op = "ov_take" /\ vLast.res = "panic" /\ vLast.thread = ovCreated
    /\ ovState = "live"
    /\ ovCell = <<>>

\* Job j was handed to exec_main.
IsMainJob(j) == beJobs[j].via = "exec_main"

\* C19: on every backend the jobs handed to exec_main run one at a time and
\* start in the order of their submission: never two of them in progress at
\* once, never a later one started while an earlier one (that was accepted by
\* the backend) has not started.
C19_MainContextFIFO ==
    /\ Cardinality({r \in beRun : IsMainJob(r.job)}) <= 1
    /\ \A i, j \in 1..Len(beStarts) :
          (i < j /\ IsMainJob(beStarts[i].job) /\ IsMainJob(beStarts[j].job))
              => beStarts[i].job < beStarts[j].job
    /\ \A a, b \in 1..Len(beJobs) :
          (a < b /\ IsMainJob(a) /\ IsMainJob(b) /\ a \notin beLost
                 /\ \E i \in 1..Len(beStarts) : beStarts[i].job = b)
              => \E i \in 1..Len(beStarts) : beStarts[i].job = a

\* C20: every job handed to exec, exec_main or exec_after is invoked exactly
\* once on every backend: never twice, and no job is dropped or leaked without
\* being invoked.
C20_InvokedExactlyOnce ==
    /\ \A j \in 1..Len(beJobs) :
          Cardinality({i \in 1..Len(beStarts) : beStarts[i].job = j}) <= 1
    /\ beLost = {}

\* Job j was handed to exec_after.
IsDelayedJob(j) == beJobs[j].via = "exec_after"

\* The context exec(f, p) hands its job to on the backend in use.
ExecCtx(p) == Route("exec", p, 0, TRUE).ctx

\* C21: on every backend a job handed to exec_after(delay, job, priority) is
\* never invoked before delay has passed since the call, and once released it
\* waits where exec(job, priority) would have put it.
C21_NotBeforeDelay ==
    /\ \A i \in 1..Len(beStarts) :
          IsDelayedJob(beStarts[i].job)
              => beStarts[i].at >= beJobs[beStarts[i].job].at + beJobs[beStarts[i].job].delay
    /\ \A j \in 1..Len(beJobs) :
          IsDelayedJob(j) =>
              /\ j \in bePool => ExecCtx(beJobs[j].priority) = "pool"
              /\ \A c \in BeCtx :
                    (\E k \in 1..Len(beQ[c]) : beQ[c][k] = j)
                        => ExecCtx(beJobs[j].priority) = c

\* Job j has been invoked.
Started(j) == \E i \in 1..Len(beStarts) : beStarts[i].job = j

\* C22: exec_after with a zero delay acts as exec at the same priority: the job
\* is invoked by the context exec would have chosen (or by the caller, as exec
\* does when that context's worker is gone), the call fails only where exec
\* fails, and on a serial context the job keeps its place: a job handed to that
\* context by a later call does not start before it.
C22_ZeroDelayIsExec ==
    \A j \in 1..Len(beJobs) :
        (IsDelayedJob(j) /\ beJobs[j].delay = 0) =>
            /\ \A i \in 1..Len(beStarts) :
                  beStarts[i].job = j
                      => beStarts[i].on \in {ExecCtx(beJobs[j].priority), "caller"}
            /\ j \in beFault => Route("exec", beJobs[j].priority, 0, TRUE).kind = "fault"
            /\ \A b \in 1..Len(beJobs) :
                  (/\ j < b
                   /\ beJobs[b].via = "exec"
                   /\ ExecCtx(beJobs[b].priority) = ExecCtx(beJobs[j].priority)
                   /\ \E i \in 1..Len(beStarts) :
                         beStarts[i].job = b /\ beStarts[i].on \in BeCtx)
                      => (Started(j) \/ j \in beLost)

\* C23: a job handed to exec_main is run by the main context, never by the
\* thread that called exec_main (a thread other than the main context) and
\* never by another worker.
C23_MainJobsOnMainContext ==
    \A i \in 1..Len(beStarts) :
        IsMainJob(beStarts[i].job) => beStarts[i].on = "main"

\* C24: no lost wake-up for a Timer awaited in a spawned task. Once the flag is
\* set and the callback's wake has been made, a task that has not completed is
\* scheduled, with a resumption at the backend or with its poll still under
\* way (it is handed over again when that poll returns); a resumption that
\* starts with the flag set completes the task; and under fair scheduling a
\* set flag leads to the task's completion.
C24_NoLostWakeup ==
    /\ []((/\ slSt # NoState
           /\ tmFinished
           /\ ~slSt.completed
           /\ \A j \in tmDelayed : j.stage # "stored")
              => (slSt.scheduled /\ (slJobs > 0 \/ slSt.running)))
    /\ [][(tmFinished /\ slJobs' < slJobs) => slSt'.completed]_vars
    /\ ((slSt # NoState /\ tmFinished) ~> slSt.completed)

\* C24 witness: the callback has set the flag and woken the task while the
\* first poll had not yet returned; the wake only marked the task scheduled.
C24_Witness ==
    /\ tmPos = "polling"
    /\ Len(tmPollLog) = 1
    /\ tmFinished
    /\ tmWoken = <<SlWaker>>
    /\ slSt.running /\ slSt.scheduled
    /\ slJobs = 0

\* Stores of the completion flag made so far: a callback that has stored is
\* either about to wake or has woken.
FlagStores == Cardinality({j \in tmDelayed : j.stage = "stored"}) + Len(tmWoken)

\* C25: the Timer's flag is false when the Timer is created; it changes only
\* in a step of the delayed callback, only from false to true; it is stored at
\* most once per Timer; and a poll leaves it as it is.
C25_FlagSingleWriter ==
    /\ []((tmCtor = <<>> \/ tmRegLog = <<>>) => ~tmFinished)
    /\ [][tmFinished' # tmFinished
             => /\ ~tmFinished /\ tmFinished'
                /\ \E j \in tmDelayed :
                      /\ j.stage = "waiting"
                      /\ tmDelayed' = (tmDelayed \ {j}) \cup {[j EXCEPT !.stage = "stored"]}
                /\ tmPollLog' = tmPollLog]_vars
    /\ [](FlagStores <= 1)
    /\ [][tmPollLog' # tmPollLog => tmFinished' = tmFinished]_vars

\* C25 witness: the callback has stored the flag and woken the poller, and a
\* later poll has read it and returned Ready.
C25_Witness ==
    /\ tmFinished
    /\ FlagStores = 1
    /\ tmWoken # <<>>
    /\ Len(tmPollLog) >= 2
    /\ tmPollLog[Len(tmPollLog)].res = "ready"

\* C26: on Android the queue of exec and exec_after depends on the priority
\* alone, Utility and Background share the low queue, and a job handed to exec
\* or exec_after never waits in the main context's FIFO and is never run by the
\* main context's worker.
C26_AndroidWorkerQueues ==
    /\ AndroidQueueFor("Utility") = AndroidQueueFor("Background")
    /\ beBackend = "android" =>
          \A j \in 1..Len(beJobs) :
              ~IsMainJob(j) =>
                  /\ \A k \in 1..Len(beQ["main"]) : beQ["main"][k] # j
                  /\ \A i \in 1..Len(beStarts) :
                        beStarts[i].job = j => beStarts[i].on # "main"

\* C27: on the polyfill a call of exec or exec_after gets the scheduler from
\* global(), whose first call completes the initialisation and returns: the
\* call hands its job to the workers, so no such job is left without a worker
\* to run it.
C27_PolyfillGlobalRuns ==
    beBackend = "polyfill" =>
        \A j \in 1..Len(beJobs) :
            ~IsMainJob(j) => (j \notin beFault /\ j \notin beLost)

\* C28: on the polyfill the main executor is installed by the first
\* start_main_executor and stays installed, its loop alive whatever its jobs
\* do; every later start_main_executor panics and changes nothing; and an
\* exec_main made before the first start panics without queueing or ever
\* running its job.
C28_MainExecutorSetOnce ==
    /\ [][beMainStarted => beMainStarted']_vars
    /\ [](beMainStarted <=> beStartLog # <<>>)
    /\ [](\A i \in 1..Len(beStartLog) :
             beStartLog[i] = IF i = 1 THEN "runs" ELSE "panic")
    /\ []((beBackend = "polyfill" /\ beMainStarted) => beAlive["main"])
    /\ [][(beStartLog # <<>> /\ beStartLog' # beStartLog)
             => UNCHANGED <<beMainStarted, beQ, beRun, beStarts, beAlive>>]_vars
    /\ [][(/\ beBackend = "polyfill"
            /\ ~beMainStarted
            /\ Len(beJobs') > Len(beJobs)
            /\ beJobs'[Len(beJobs')].via = "exec_main")
             => (Len(beJobs') \in beFault' /\ beQ' = beQ /\ beStarts' = beStarts)]_vars
    /\ [](beBackend = "polyfill"
             => \A j \in beFault : IsMainJob(j) => ~Started(j))

\* C28 witness: an exec_main before the start failed, the first start
\* installed the executor, a second start panicked, and a job of the main
\* executor has panicked while the loop is still alive.
C28_Witness ==
    /\ beBackend = "polyfill"
    /\ beStartLog = <<"runs", "panic">>
    /\ beMainStarted
    /\ 1 \in beFault /\ IsMainJob(1) /\ ~Started(1)
    /\ 2 \in bePanicked /\ IsMainJob(2)
    /\ beAlive["main"]

\* C29: on Windows the native work or timer object of every exec and
\* exec_after carries the pointer to the context that holds that very job
\* (never null, never another job's), the callback consumes the context once,
\* and no context is left behind without a callback to free it.
C29_WindowsContextHandoff ==
    beBackend = "windows" =>
        \A j \in 1..Len(beJobs) :
            /\ beJobs[j].ptr = j
            /\ Cardinality({i \in 1..Len(beStarts) : beStarts[i].job = j}) <= 1
            /\ j \notin beLost

\* The timeout t (milliseconds, a u32 in halves) is at least the Duration d:
\* t is above d's whole milliseconds, or equal to them with no nanoseconds
\* left over.
NotShorter(t, d) ==
    LET m == AsMillis(d)
        above == m.top = 0 /\ (t.high > m.high \/ (t.high = m.high /\ t.low > m.low))
        same == m.top = 0 /\ t.high = m.high /\ t.low = m.low
    IN  above \/ (same /\ d.nanos % NanosPerMilli = 0)

\* C30: for every Duration the timeout the web backend hands to setTimeout is
\* not shorter than the delay: the conversion neither wraps at 2^32 ms nor
\* cuts a fraction of a millisecond off.
C30_WebTimeoutNotShorter ==
    wbTimeout # <<>> => NotShorter(wbTimeout[1], wbDelay[1])

\* C31: the background task is not cancelled by Mailbox::new dropping the handle
\* that spawn_local returned: after new the task is never closed without having
\* finished, and every job accepted into the channel is eventually applied.
C31_TaskSurvivesNew ==
    /\ [](mbSender => ~MbCancelled)
    /\ \A j \in 1..MaxJobs : (j \in Range(mbQueue)) ~> (j \in Range(mbApplied))

\* C32: the callback of a Timer holds and wakes the waker of the first poll
\* only: the one registration is made by the first poll with that poll's waker,
\* every callback the backend holds carries it, every waker woken is it, and the
\* waker of a later poll is neither stored nor woken.
C32_OnlyFirstWakerWoken ==
    /\ Len(tmRegLog) <= 1
    /\ \A i \in 1..Len(tmRegLog) :
          tmRegLog[i].poll = 1 /\ tmRegLog[i].waker = tmPollWakers[1]
    /\ \A j \in tmDelayed : tmPollWakers # <<>> /\ j.waker = tmPollWakers[1]
    /\ \A i \in 1..Len(tmWoken) : tmWoken[i] = tmPollWakers[1]
    /\ (tmPollWakers # <<>> /\ ~tmFinished) => Len(tmRegLog) = 1

\* C32 witness: the Timer was polled with one waker, then, still pending, with
\* another; the delay elapsed and the callback woke the first waker alone.
C32_Witness ==
    /\ Len(tmPollWakers) = 2
    /\ tmPollWakers[2] # tmPollWakers[1]
    /\ tmPollLog[2].res = "pending"
    /\ tmPos = "idle"
    /\ tmFinished
    /\ tmDelayed = {}
    /\ tmWoken = <<tmPollWakers[1]>>

\* The step is a call of one of the operations ops on the OnceValue.
OvCall(ops) == vOps' # vOps /\ vLast'.op \in ops

\* The call of the step panicked and left the cell, its borrows and what was
\* taken out as they were.
OvFailedUntouched ==
    /\ vLast'.res = "panic"
    /\ ovCell' = ovCell /\ ovCell # <<>>
    /\ ovReaders' = ovReaders /\ ovWriter' = ovWriter
    /\ ovTaken' = ovTaken /\ ovState' = ovState

\* C33: OnceValue borrows exclude as readers and a writer do: with a Ref or the
\* RefMut alive, take and get_mut panic; with the RefMut alive, get panics; the
\* failed call leaves the cell occupied with the same value; a get on the owning
\* thread with only Refs alive succeeds and adds one more Ref; a RefMut is never
\* alive together with a Ref or a second RefMut.
C33_BorrowExclusion ==
    /\ [][(OvCall({"ov_take", "ov_get_mut"}) /\ (ovReaders > 0 \/ ovWriter))
             => OvFailedUntouched]_vars
    /\ [][(OvCall({"ov_get"}) /\ ovWriter) => OvFailedUntouched]_vars
    /\ [][(OvCall({"ov_get"}) /\ ~ovWriter /\ ovCell # <<>> /\ vLast'.thread = ovCreated)
             => /\ vLast'.res = "ok" /\ vLast'.val = ovCell
                /\ ovReaders' = ovReaders + 1
                /\ ovCell' = ovCell]_vars
    /\ [][(OvCall({"ov_get_mut"}) /\ vLast'.res = "ok")
             => ovReaders = 0 /\ ~ovWriter /\ ovWriter']_vars
    /\ [](~(ovWriter /\ ovReaders > 0))
    /\ []((ovWriter \/ ovReaders > 0) => ovCell # <<>>)

\* C33 witness: two Refs from get are alive at once and take, called on the
\* owning thread, has just panicked; the value is still in the cell.
C33_Witness ==
    /\ ovReaders = 2 /\ ~ovWriter
    /\ vLast.op = "ov_take" /\ vLast.res = "panic" /\ vLast.thread = ovCreated
    /\ ovCell # <<>> /\ ovTaken = <<>>

=============================================================================
